---- MODULE Spec2Model ----
(***************************************************************************)
(* Transactional signal-to-position pipeline of StockTrader.               *)
(*                                                                         *)
(* The store (app/storage/db.py) is a single sqlite connection: `committed`*)
(* is the durable database, `view` is what the connection reads (committed *)
(* rows plus its own uncommitted writes) and `intx` says whether the       *)
(* connection has a transaction open.  Python's sqlite3 opens a            *)
(* transaction implicitly before an INSERT/UPDATE when none is open.       *)
(* Every table uses an AUTOINCREMENT key and no row is ever deleted, so a  *)
(* table is a sequence and a row's id is its index; a rollback restores    *)
(* the sequence counters together with the rows.                           *)
(*                                                                         *)
(* Reals are scaled to integers: confidences and weights by 100.           *)
(* Strings built with f-strings are modelled as tuples of their parts.     *)
(***************************************************************************)
EXTENDS Integers, Sequences, FiniteSets, TLC

VARIABLES
    committed,      \* durable database state
    view,           \* the connection's view: committed + uncommitted writes
    intx,           \* the connection has an open transaction
    kill_switch,    \* app.risk.engine.kill_switch.enabled
    today,          \* datetime.now().date()
    pc,             \* position inside execute_signal ("idle" between calls)
    locals,         \* execute_signal's local variables
    ret,            \* outcome of the last pipeline / store call
    log,            \* lines given to log_and_notify by the last pipeline call
    broker_log,     \* orders the broker capability has received, with results
    gate_in,        \* account_state last handed to can_trade
    gate_out,       \* decision can_trade returned for gate_in
    conc            \* other connections to the same database file, and its write lock

vars == <<committed, view, intx, kill_switch, today, pc, locals, ret, log,
          broker_log, gate_in, gate_out, conc>>

----------------------------------------------------------------------------
(* Bounds of the model *)

MaxPositions == 2      \* committed positions rows
MaxSent == 3           \* orders handed to the broker
MaxDay == 2            \* calendar days
MaxTE == 12            \* |trading_enabled| values tried on can_trade
MaxStorePositions == 2 \* positions rows in the store-level specifications
MaxEvents == 3         \* position_events rows in the store-level specifications
MaxUrls == 2           \* distinct urls the feed delivers
MaxNews == 2           \* news_events rows when the feed varies

(* Program constants *)

ExpectedPrice == 83500     \* expected_price of the entry order
ExitPrice == 83600         \* simulated settlement price
MinConf == 92              \* min_conf 0.92, scaled by 100
ScoreHi == 10000           \* clamp upper bound 100.0, scaled by 100
None == 0                  \* Python None where an int id is expected

NullKey == <<>>            \* SQL NULL idempotency_key
NullText == "NULL"         \* SQL NULL in a text column
NoRow == <<>>              \* fetchone() found nothing / account_state None

----------------------------------------------------------------------------
(* Schema: DB.init *)

EmptyDB ==
    [ news_events     |-> <<>>,
      event_tickers   |-> <<>>,
      signal_scores   |-> <<>>,
      positions       |-> <<>>,
      orders          |-> <<>>,
      position_events |-> <<>>,
      risk_state      |-> <<>>,
      parameter_registry |->
          << [ name |-> "score_weights",
               value_json |-> [ impact |-> 30, source_reliability |-> 20,
                                novelty |-> 20, market_reaction |-> 15,
                                liquidity |-> 15 ] ] >> ]

TierValues == {1, 2, 3}
EventTypes == {"ENTRY", "ADD", "PARTIAL_EXIT", "FULL_EXIT", "BLOCK"}
EventActions == {"EXECUTED", "SKIPPED", "BLOCKED"}

Result(d, r) == [db |-> d, ret |-> r]

Ids(table) == 1..Len(table)

----------------------------------------------------------------------------
(* Store operations, as functions of the connection's view *)

\* insert or replace: an existing row is put back to its defaults
ensure_risk_state_today_replace(d, trade_date) ==
    IF \E i \in Ids(d.risk_state) : d.risk_state[i].trade_date = trade_date
    THEN [d EXCEPT !.risk_state =
              [i \in DOMAIN @ |-> IF @[i].trade_date = trade_date
                                  THEN [@[i] EXCEPT !.trading_enabled = 1] ELSE @[i]]]
    ELSE [d EXCEPT !.risk_state =
              Append(@, [trade_date |-> trade_date, trading_enabled |-> 1])]

\* insert or ignore into risk_state(trade_date): trading_enabled defaults to 1
ensure_risk_state_today(d, trade_date) ==
    IF \E i \in Ids(d.risk_state) : d.risk_state[i].trade_date = trade_date
    THEN d
    ELSE [d EXCEPT !.risk_state =
              Append(@, [trade_date |-> trade_date, trading_enabled |-> 1])]

\* select * from risk_state where trade_date=?  (fetchone)
get_risk_state(d, trade_date) ==
    LET hit == {i \in Ids(d.risk_state) : d.risk_state[i].trade_date = trade_date}
    IN IF hit = {} THEN NoRow
       ELSE <<d.risk_state[CHOOSE i \in hit : \A j \in hit : i <= j]>>

\* UNIQUE(url) alone, no UNIQUE(raw_hash)
NewsIntegrityError_url_only(d, item) ==
    \/ item.tier \notin TierValues
    \/ \E i \in Ids(d.news_events) :
          item.url # NullText /\ d.news_events[i].url = item.url

\* sqlite3.IntegrityError of the news_events insert: CHECK(tier) or UNIQUE
NewsIntegrityError(d, item) ==
    \/ item.tier \notin TierValues
    \/ \E i \in Ids(d.news_events) :
          \/ item.url # NullText /\ d.news_events[i].url = item.url
          \/ d.news_events[i].raw_hash = item.raw_hash

insert_news_if_new(d, item) ==
    IF NewsIntegrityError(d, item)
    THEN Result(d, None)
    ELSE Result([d EXCEPT !.news_events = Append(@, item)],
                Len(d.news_events) + 1)

insert_event_ticker(d, news_id, ticker, company_name, confidence, method) ==
    Result([d EXCEPT !.event_tickers =
                Append(@, [ news_id |-> news_id, ticker |-> ticker,
                            company_name |-> company_name,
                            map_confidence |-> confidence,
                            mapping_method |-> method ])],
           Len(d.event_tickers) + 1)

get_event_ticker(d, event_ticker_id) ==
    IF event_ticker_id \in Ids(d.event_tickers)
    THEN <<[id |-> event_ticker_id] @@ d.event_tickers[event_ticker_id]>>
    ELSE NoRow

insert_signal(d, payload) ==
    Result([d EXCEPT !.signal_scores = Append(@, payload)],
           Len(d.signal_scores) + 1)

\* get_parameter: the row's value_json, None without a row
get_parameter(d, name) ==
    LET hit == {i \in Ids(d.parameter_registry) : d.parameter_registry[i].name = name}
    IN IF hit = {} THEN NoRow
       ELSE <<d.parameter_registry[CHOOSE i \in hit : TRUE].value_json>>

\* keys of get_score_weights
ScoreWeightKeys == {"impact", "source_reliability", "novelty", "market_reaction", "liquidity"}

\* None for no row and for an empty dict ("if not raw"); raw[k] of a missing
\* key raises KeyError, caught by "except Exception: return None"
get_score_weights(d) ==
    LET raw == get_parameter(d, "score_weights")
    IN IF raw = NoRow \/ DOMAIN raw[1] = {} THEN NoRow
       ELSE IF ~(ScoreWeightKeys \subseteq DOMAIN raw[1]) THEN NoRow
       ELSE <<[k \in ScoreWeightKeys |-> raw[1][k]]>>

create_position(d, ticker, signal_id, q) ==
    Result([d EXCEPT !.positions =
                Append(@, [ ticker |-> ticker, signal_id |-> signal_id,
                            status |-> "PENDING_ENTRY", qty |-> q,
                            avg_entry_price |-> None, opened_value |-> None,
                            closed |-> FALSE,
                            exit_reason_code |-> NullText ])],
           Len(d.positions) + 1)

\* a match on position_id alone
RowCount_any_status(d, position_id, status) ==
    IF position_id \in Ids(d.positions) THEN 1 ELSE 0

\* rows matched by "where position_id=? and status=?"
RowCount(d, position_id, status) ==
    IF position_id \in Ids(d.positions) /\ d.positions[position_id].status = status
    THEN 1 ELSE 0

\* an open that does not look at the current status
set_position_open_unguarded(d, position_id, avg_entry_price, opened_value) ==
    IF position_id \notin Ids(d.positions)
    THEN Result(d, "IllegalTransitionError")
    ELSE Result([d EXCEPT !.positions[position_id] =
                     [@ EXCEPT !.status = "OPEN",
                               !.avg_entry_price = avg_entry_price,
                               !.opened_value = opened_value]],
                "OK")

\* ret is "OK" or the exception raised
set_position_open(d, position_id, avg_entry_price, opened_value) ==
    IF RowCount(d, position_id, "PENDING_ENTRY") = 0
    THEN Result(d, "IllegalTransitionError")
    ELSE Result([d EXCEPT !.positions[position_id] =
                     [@ EXCEPT !.status = "OPEN",
                               !.avg_entry_price = avg_entry_price,
                               !.opened_value = opened_value]],
                "OK")

\* a close that does not look at the current status
set_position_closed_unguarded(d, position_id, reason_code) ==
    IF position_id \notin Ids(d.positions)
    THEN Result(d, "IllegalTransitionError")
    ELSE Result([d EXCEPT !.positions[position_id] =
                     [@ EXCEPT !.status = "CLOSED",
                               !.closed = TRUE,
                               !.exit_reason_code = reason_code]],
                "OK")

set_position_closed(d, position_id, reason_code) ==
    IF RowCount(d, position_id, "OPEN") = 0
    THEN Result(d, "IllegalTransitionError")
    ELSE Result([d EXCEPT !.positions[position_id] =
                     [@ EXCEPT !.status = "CLOSED",
                               !.closed = TRUE,
                               !.exit_reason_code = reason_code]],
                "OK")

insert_order(d, position_id, signal_id, ticker, side, q, order_type, status, price) ==
    Result([d EXCEPT !.orders =
                Append(@, [ position_id |-> position_id, signal_id |-> signal_id,
                            ticker |-> ticker, side |-> side, qty |-> q,
                            order_type |-> order_type, status |-> status,
                            price |-> price, filled |-> FALSE ])],
           Len(d.orders) + 1)

\* an update that matches no row
update_order_filled_no_row(d, order_id, price) == d

\* update orders set status='FILLED', price=? where id=?  (no row: no effect)
update_order_filled(d, order_id, price) ==
    IF order_id \in Ids(d.orders)
    THEN [d EXCEPT !.orders[order_id] =
              [@ EXCEPT !.status = "FILLED", !.price = price, !.filled = TRUE]]
    ELSE d

\* the CHECK constraints alone, no UNIQUE(idempotency_key)
EventIntegrityError_check_only(d, event_type, action, idempotency_key) ==
    \/ event_type \notin EventTypes
    \/ action \notin EventActions

\* sqlite3.IntegrityError of the position_events insert: CHECK or UNIQUE
EventIntegrityError(d, event_type, action, idempotency_key) ==
    \/ event_type \notin EventTypes
    \/ action \notin EventActions
    \/ /\ idempotency_key # NullKey
       /\ \E i \in Ids(d.position_events) :
              d.position_events[i].idempotency_key = idempotency_key

insert_position_event(d, position_id, event_type, action, reason_code, detail_json, idempotency_key) ==
    IF EventIntegrityError(d, event_type, action, idempotency_key)
    THEN Result(d, None)
    ELSE Result([d EXCEPT !.position_events =
                     Append(@, [ position_id |-> position_id,
                                 event_type |-> event_type, action |-> action,
                                 reason_code |-> reason_code,
                                 detail_json |-> detail_json,
                                 idempotency_key |-> idempotency_key ])],
                Len(d.position_events) + 1)

\* conn.commit(): the view becomes durable.  conn.rollback(): it is discarded.
commit(cm, vw) == [committed |-> vw, view |-> vw]
\* a rollback that keeps the writes
rollback_keeps_writes(cm, vw) == [committed |-> vw, view |-> vw]
rollback(cm, vw) == [committed |-> cm, view |-> cm]

----------------------------------------------------------------------------
(* Risk Gate: app/risk/engine.py *)

RiskDecision(allowed, reason_code) == [allowed |-> allowed, reason_code |-> reason_code]

\* account_state.get("trading_enabled", 1)
TradingEnabledOf(row) ==
    IF "trading_enabled" \in DOMAIN row THEN row.trading_enabled ELSE 1

\* the per-day state alone, the kill switch never looked at
can_trade_no_switch(account_state) ==
    IF account_state # NoRow /\ TradingEnabledOf(account_state[1]) # 1
    THEN RiskDecision(FALSE, "RISK_DISABLED")
    ELSE RiskDecision(TRUE, "None")

\* the per-day state looked at before the kill switch
can_trade_state_first(account_state) ==
    IF account_state # NoRow /\ TradingEnabledOf(account_state[1]) # 1
    THEN RiskDecision(FALSE, "RISK_DISABLED")
    ELSE IF kill_switch
         THEN RiskDecision(FALSE, "KILL_SWITCH_ON")
         ELSE RiskDecision(TRUE, "None")

\* account_state is NoRow (None) or <<dict>>
can_trade(account_state) ==
    IF kill_switch
    THEN RiskDecision(FALSE, "KILL_SWITCH_ON")
    ELSE IF account_state # NoRow /\ TradingEnabledOf(account_state[1]) # 1
         THEN RiskDecision(FALSE, "RISK_DISABLED")
         ELSE RiskDecision(TRUE, "None")

----------------------------------------------------------------------------
(* Signal Integrity Check: app/signal/integrity.py.  "OK" or the error raised *)

\* the news_id comparison alone
validate_signal_binding_news_only(input_news_id, event_ticker, min_conf) ==
    IF event_ticker.news_id # input_news_id THEN "NEWS_MISMATCH" ELSE "OK"

\* the confidence test ahead of the news_id comparison
validate_signal_binding_confidence_first(input_news_id, event_ticker, min_conf) ==
    IF event_ticker.map_confidence < min_conf THEN "LOW_CONFIDENCE"
    ELSE IF event_ticker.news_id # input_news_id THEN "NEWS_MISMATCH"
    ELSE "OK"

validate_signal_binding(input_news_id, event_ticker, min_conf) ==
    IF event_ticker.news_id # input_news_id THEN "NEWS_MISMATCH"
    ELSE IF event_ticker.map_confidence < min_conf THEN "LOW_CONFIDENCE"
    ELSE "OK"

----------------------------------------------------------------------------
(* Scorer: app/signal/scorer.py, weights scaled by 100 *)

Max2(a, b) == IF a >= b THEN a ELSE b
Min2(a, b) == IF a <= b THEN a ELSE b

\* the upper bound alone
clamp_upper_only(v, lo, hi) == Min2(hi, v)

clamp(v, lo, hi) == Max2(lo, Min2(hi, v))

DEFAULT_WEIGHTS ==
    [ impact |-> 30, source_reliability |-> 20, novelty |-> 20,
      market_reaction |-> 15, liquidity |-> 15 ]

\* {**DEFAULT_WEIGHTS, **(weights or {})}
MergedWeights(weights) ==
    IF weights = NoRow THEN DEFAULT_WEIGHTS
    ELSE [k \in DOMAIN DEFAULT_WEIGHTS |->
              IF k \in DOMAIN weights[1] THEN weights[1][k] ELSE DEFAULT_WEIGHTS[k]]

compute_scores(inp, weights) ==
    LET w == MergedWeights(weights)
        raw_score == w.impact * inp.impact
                     + w.source_reliability * inp.source_reliability
                     + w.novelty * inp.novelty
                     + w.market_reaction * inp.market_reaction
                     + w.liquidity * inp.liquidity
                     - 100 * inp.risk_penalty
    IN [raw_score |-> raw_score, total_score |-> clamp(raw_score, 0, ScoreHi)]

----------------------------------------------------------------------------
(* News feed and ticker mapping *)

\* The alias keys, longest first (sorted(ALIASES.keys(), key=len, reverse=True)).
\* SK_HYNIX, SAMSUNG_ELEC and SAMSUNG stand for the three Korean keys.
AliasOrder == <<"SK_HYNIX", "SAMSUNG_ELEC", "SAMSUNG">>

ALIASES ==
    [ SK_HYNIX     |-> [ticker |-> "000660", company_name |-> "SK_HYNIX", confidence |-> 98],
      SAMSUNG_ELEC |-> [ticker |-> "005930", company_name |-> "SAMSUNG_ELEC", confidence |-> 98],
      SAMSUNG      |-> [ticker |-> "", company_name |-> "AMBIGUOUS", confidence |-> 20] ]

\* The alias keys that occur in a title as substrings ("k in text"): every text
\* holding SAMSUNG_ELEC holds SAMSUNG too.  The sample body holds none.
KeysIn ==
    [ T_SAMSUNG_ELEC |-> {"SAMSUNG_ELEC", "SAMSUNG"},
      T_SK_HYNIX     |-> {"SK_HYNIX"},
      T_SAMSUNG      |-> {"SAMSUNG"},
      T_OTHER        |-> {} ]

\* NoRow (None) or <<MappingResult>>
map_ticker(text) ==
    LET hits == {i \in DOMAIN AliasOrder : AliasOrder[i] \in KeysIn[text]}
    IN IF hits = {} THEN NoRow
       ELSE LET k == AliasOrder[CHOOSE i \in hits : \A j \in hits : i <= j]
            IN IF ALIASES[k].ticker = "" THEN NoRow
               ELSE <<[ ticker |-> ALIASES[k].ticker,
                        company_name |-> ALIASES[k].company_name,
                        confidence |-> ALIASES[k].confidence,
                        method |-> "alias_dict" ]>>

\* sha256 of "source|url|title": collision-free, so the triple itself
build_hash(item) == <<item.source, item.url, item.title>>

sample_news ==
    [ source |-> "sample", tier |-> 2, title |-> "T_SAMSUNG_ELEC",
      url |-> "https://example.com/news/1" ]

\* Items a feed connector may deliver in place of the sample: any source, any
\* title, a url or none
UrlList ==
    << "https://example.com/news/1", "https://example.com/news/2",
       "https://example.com/news/3", "https://example.com/news/4" >>

FeedItems ==
    { [source |-> src, tier |-> 2, title |-> t, url |-> u] :
          src \in {"sample", "test"}, t \in DOMAIN KeysIn,
          u \in {UrlList[i] : i \in 1..MaxUrls} \cup {NullText} }

----------------------------------------------------------------------------
(* Broker capability: the OrderResult of send_order, or the call throwing *)

OrderResult(status, filled_qty, avg_price, reason_code) ==
    [status |-> status, filled_qty |-> filled_qty, avg_price |-> avg_price,
     reason_code |-> reason_code]

NoResult == OrderResult("NONE", 0, 0, "None")
Throws == OrderResult("THROWS", 0, 0, "None")

\* PaperBroker fills at the expected price; a venue may reject, fill partially
\* or fail (KISBrokerError)
BrokerOutcomes(req) ==
    { OrderResult("FILLED", req.qty, req.expected_price, "None"),
      OrderResult("REJECTED", 0, 0, "SIM_REJECT"),
      OrderResult("PARTIAL_FILLED", 0, 0, "None"),
      Throws }

----------------------------------------------------------------------------
(* Execution pipeline: app/main.py *)

Qtys == {1, 2}

NoLocals ==
    [ signal_id |-> 0, ticker |-> "", qty |-> 0, position_id |-> 0,
      order_id |-> 0, result |-> NoResult ]

\* a key of the verb alone
Key_verb_only(verb, position_id, order_id) == <<verb>>

\* a key without the order id
Key_without_order(verb, position_id, order_id) == <<verb, position_id>>

\* f"entry:{position_id}:{order_id}" and its siblings
Key(verb, position_id, order_id) == <<verb, position_id, order_id>>

\* reason_code or 'ORDER_NOT_FILLED'
ReasonOr(reason_code, default) == IF reason_code = "None" THEN default ELSE reason_code

\* the transaction's end without the open flag being cleared
EndTx_leaves_open(t) ==
    /\ committed' = t.committed
    /\ view' = t.view
    /\ intx' = intx

\* the transaction ends: both copies of the database and the open flag
EndTx(t) ==
    /\ committed' = t.committed
    /\ view' = t.view
    /\ intx' = FALSE

----------------------------------------------------------------------------
(* Notification: app/monitor/telegram_logger.py *)

\* what happens to a delivery: switched off by STOCK_TRADER_NOTIFY, skipped
\* under unittest, no token or chat id, accepted by Telegram, answered with
\* ok=false, or urlopen failing
Deliveries == {"disabled", "unittest", "no_credentials", "ok", "rejected", "unreachable"}

\* a send_telegram without its try/except around urlopen
send_telegram_uncaught(delivery) ==
    IF delivery \in {"disabled", "unittest", "no_credentials"} THEN "False"
    ELSE IF delivery = "ok" THEN "True"
    ELSE IF delivery = "rejected" THEN "False"
    ELSE "raise"

\* "True", "False", or "raise" were an exception to leave it
send_telegram(delivery) ==
    IF delivery \in {"disabled", "unittest", "no_credentials"} THEN "False"
    ELSE IF delivery = "ok" THEN "True"
    ELSE "False"

\* logger.info(text); send_telegram(text): "None", or "raise"
log_and_notify(delivery) ==
    IF send_telegram(delivery) = "raise" THEN "raise" ELSE "None"

\* what a call gives its caller when its last line met this delivery: the
\* line is emitted inside the try block, right before the return
Returned(r, lines, delivery) ==
    IF r[1] = "return" /\ lines # <<>> /\ log_and_notify(delivery) = "raise"
    THEN <<"raise", "Exception">>
    ELSE r

----------------------------------------------------------------------------

\* the call is over and nothing was logged
Finish_silent(r, lines) ==
    /\ pc' = "idle"
    /\ locals' = NoLocals
    /\ ret' = r
    /\ log' = <<>>

\* the pipeline call is over
Finish(r, lines) ==
    /\ pc' = "idle"
    /\ locals' = NoLocals
    /\ ret' \in {Returned(r, lines, delivery) : delivery \in Deliveries}
    /\ log' = lines

\* Tx #1: ingest + mapping + signal persistence (the whole function), given
\* what map_ticker returned
Phase1Mapped(d, news, mapping) ==
    LET raw_hash == build_hash(news)
        r1 == insert_news_if_new(d, [ source |-> news.source, tier |-> news.tier,
                                      title |-> news.title, url |-> news.url,
                                      raw_hash |-> raw_hash ])
        news_id == r1.ret
        m == mapping[1]
        r2 == insert_event_ticker(r1.db, news_id, m.ticker, m.company_name,
                                  m.confidence, m.method)
        event_ticker_id == r2.ret
        row == get_event_ticker(r2.db, event_ticker_id)
        check == validate_signal_binding(news_id, row[1], MinConf)
        components == [ impact |-> 75, source_reliability |-> 70, novelty |-> 90,
                        market_reaction |-> 50, liquidity |-> 50, risk_penalty |-> 10 ]
        scores == compute_scores(components, get_score_weights(r2.db))
        r3 == insert_signal(r2.db, [ news_id |-> news_id,
                                     event_ticker_id |-> event_ticker_id,
                                     ticker |-> m.ticker,
                                     raw_score |-> scores.raw_score,
                                     total_score |-> scores.total_score,
                                     priced_in_flag |-> "LOW", decision |-> "BUY" ])
    IN IF news_id = None
       THEN [tx |-> rollback(committed, r1.db), ret |-> <<"return", "None">>,
             log |-> <<<<"DUP_NEWS_SKIPPED">>>>]
       ELSE IF mapping = NoRow
       THEN [tx |-> rollback(committed, r1.db), ret |-> <<"return", "None">>,
             log |-> <<<<"NO_MAPPING">>>>]
       ELSE IF row = NoRow
       THEN [tx |-> rollback(committed, r2.db), ret |-> <<"return", "None">>,
             log |-> <<<<"EVENT_TICKER_NOT_FOUND">>>>]
       ELSE IF check # "OK"
       THEN [tx |-> rollback(committed, r2.db), ret |-> <<"raise", check>>,
             log |-> <<>>]
       ELSE [tx |-> commit(committed, r3.db),
             ret |-> <<"return", "bundle", r3.ret, m.ticker>>, log |-> <<>>]

Phase1(d, news) == Phase1Mapped(d, news, map_ticker(news.title))

\* the database after the first k inserts of Tx #1
Phase1Writes(d, news, mapping, k) ==
    LET r1 == insert_news_if_new(d, [ source |-> news.source, tier |-> news.tier,
                                      title |-> news.title, url |-> news.url,
                                      raw_hash |-> build_hash(news) ])
        m == mapping[1]
        r2 == insert_event_ticker(r1.db, r1.ret, m.ticker, m.company_name,
                                  m.confidence, m.method)
        r3 == insert_signal(r2.db, [ news_id |-> r1.ret, event_ticker_id |-> r2.ret,
                                     ticker |-> m.ticker, raw_score |-> 0,
                                     total_score |-> 0, priced_in_flag |-> "LOW",
                                     decision |-> "BUY" ])
    IN IF k = 0 THEN d ELSE IF k = 1 THEN r1.db ELSE IF k = 2 THEN r2.db ELSE r3.db

ingest_and_create_signal(news) ==
    /\ pc = "idle"
    /\ IF intx
       THEN \* begin() inside an open transaction: sqlite3.OperationalError
            /\ Finish(<<"raise", "OperationalError">>, <<>>)
            /\ UNCHANGED <<committed, view, intx>>
       ELSE LET out == Phase1(view, news)
            IN /\ EndTx(out.tx)
               /\ Finish(out.ret, out.log)
    /\ UNCHANGED <<kill_switch, today, broker_log, gate_in, gate_out, conc>>

\* the same call with map_ticker replaced by a mapper that returns mapping
ingest_and_create_signal_mapped(news, mapping) ==
    /\ pc = "idle"
    /\ ~intx
    /\ LET out == Phase1Mapped(view, news, mapping)
       IN /\ EndTx(out.tx)
          /\ Finish(out.ret, out.log)
    /\ UNCHANGED <<kill_switch, today, broker_log, gate_in, gate_out, conc>>

\* except Exception: db.rollback(); raise -- a store call or commit() of Tx #1
\* failing once k inserts are done
ingest_and_create_signal_except(news, k) ==
    /\ pc = "idle"
    /\ ~intx
    /\ LET mapping == map_ticker(news.title)
       IN /\ k >= 1 => Phase1Writes(view, news, mapping, 1) # view
          /\ k >= 2 => mapping # NoRow
          /\ EndTx(rollback(committed, Phase1Writes(view, news, mapping, k)))
    /\ Finish(<<"raise", "Exception">>, <<>>)
    /\ UNCHANGED <<kill_switch, today, broker_log, gate_in, gate_out, conc>>

\* Tx #2 up to the broker call: risk gate, position and order rows
Phase2Gate(d, trade_date) ==
    LET d1 == ensure_risk_state_today(d, trade_date)
        rs == get_risk_state(d1, trade_date)
    IN [db |-> d1, rs |-> rs, risk |-> can_trade(rs)]

Phase2Rows(d, signal_id, ticker, q) ==
    LET r1 == create_position(d, ticker, signal_id, q)
        r2 == insert_order(r1.db, r1.ret, signal_id, ticker, "BUY", q,
                           "MARKET", "SENT", None)
    IN [db |-> r2.db, position_id |-> r1.ret, order_id |-> r2.ret]

execute_signal_gate(signal_id, q) ==
    /\ pc = "idle"
    /\ signal_id \in Ids(committed.signal_scores)
    /\ Len(committed.positions) < MaxPositions
    /\ Len(broker_log) < MaxSent
    /\ IF intx
       THEN /\ Finish(<<"raise", "OperationalError">>, <<>>)
            /\ UNCHANGED <<committed, view, intx>>
       ELSE LET g == Phase2Gate(view, today)
                ticker == committed.signal_scores[signal_id].ticker
                rows == Phase2Rows(g.db, signal_id, ticker, q)
            IN IF g.rs = NoRow
               THEN /\ EndTx(rollback(committed, g.db))
                    /\ Finish(<<"return", "False">>, <<<<"BLOCKED", "RISK_STATE_MISSING">>>>)
               ELSE /\ IF ~g.risk.allowed
                       THEN /\ EndTx(rollback(committed, g.db))
                            /\ Finish(<<"return", "False">>,
                                      <<<<"BLOCKED", g.risk.reason_code>>>>)
                       ELSE /\ view' = rows.db
                            /\ intx' = TRUE
                            /\ pc' = "broker"
                            /\ locals' = [ signal_id |-> signal_id, ticker |-> ticker,
                                           qty |-> q, position_id |-> rows.position_id,
                                           order_id |-> rows.order_id,
                                           result |-> NoResult ]
                            /\ ret' = <<"running">>
                            /\ log' = <<>>
                            /\ UNCHANGED committed
    /\ UNCHANGED <<kill_switch, today, broker_log, gate_in, gate_out, conc>>

\* OrderRequest(signal_id, ticker, side="BUY", qty, expected_price=83500.0)
EntryRequest(l) ==
    [ signal_id |-> l.signal_id, ticker |-> l.ticker, side |-> "BUY", qty |-> l.qty,
      order_type |-> "MARKET", expected_price |-> ExpectedPrice ]

\* a test for REJECTED alone
NotFilled_rejected_only(result) == result.status = "REJECTED"
\* the entry order's result is anything but FILLED
NotFilled(result) == result.status # "FILLED"

\* broker.send_order and the not-filled branch
execute_signal_broker(result) ==
    /\ pc = "broker"
    /\ broker_log' = Append(broker_log, [ signal_id |-> locals.signal_id, side |-> "BUY",
                                          status |-> result.status ])
    /\ IF result = Throws
       THEN /\ EndTx(rollback(committed, view))
            /\ Finish(<<"raise", "BrokerError">>, <<>>)
       ELSE IF NotFilled(result)
       THEN LET reason == ReasonOr(result.reason_code, "ORDER_NOT_FILLED")
                r == insert_position_event(view, locals.position_id, "BLOCK", "BLOCKED",
                         reason, <<locals.signal_id, locals.order_id>>,
                         Key("block", locals.position_id, locals.order_id))
            IN /\ EndTx(rollback(committed, r.db))
               /\ Finish(<<"return", "False">>, <<<<"BLOCKED", reason>>>>)
       ELSE /\ pc' = "entry"
            /\ locals' = [locals EXCEPT !.result = result]
            /\ UNCHANGED <<committed, view, intx, ret, log>>
    /\ UNCHANGED <<kill_switch, today, gate_in, gate_out, conc>>

\* a filled branch that leaves the position as it is
Phase2Entry_no_open(d, l) ==
    [ db |-> update_order_filled(d, l.order_id, l.result.avg_price),
      raised |-> "None", first_event_id |-> None ]

\* a filled branch that fails when the ENTRY event is refused
Phase2Entry_event_required(d, l) ==
    LET d1 == update_order_filled(d, l.order_id, l.result.avg_price)
        r2 == set_position_open(d1, l.position_id, l.result.avg_price,
                                l.result.avg_price * l.qty)
        r3 == insert_position_event(r2.db, l.position_id, "ENTRY", "EXECUTED",
                  "ENTRY_FILLED",
                  <<l.signal_id, l.order_id, l.result.filled_qty, l.result.avg_price>>,
                  Key("entry", l.position_id, l.order_id))
    IN IF r2.ret # "OK"
       THEN [db |-> r2.db, raised |-> r2.ret, first_event_id |-> None]
       ELSE IF r3.ret = None
       THEN [db |-> r3.db, raised |-> "IntegrityError", first_event_id |-> None]
       ELSE [db |-> r3.db, raised |-> "None", first_event_id |-> r3.ret]

\* the filled branch of Tx #2: order FILLED, position OPEN, ENTRY event, commit
Phase2Entry(d, l) ==
    LET d1 == update_order_filled(d, l.order_id, l.result.avg_price)
        r2 == set_position_open(d1, l.position_id, l.result.avg_price,
                                l.result.avg_price * l.qty)
        r3 == insert_position_event(r2.db, l.position_id, "ENTRY", "EXECUTED",
                  "ENTRY_FILLED",
                  <<l.signal_id, l.order_id, l.result.filled_qty, l.result.avg_price>>,
                  Key("entry", l.position_id, l.order_id))
    IN IF r2.ret # "OK"
       THEN [db |-> r2.db, raised |-> r2.ret, first_event_id |-> None]
       ELSE [db |-> r3.db, raised |-> "None", first_event_id |-> r3.ret]

execute_signal_entry ==
    /\ pc = "entry"
    /\ LET e == Phase2Entry(view, locals)
       IN IF e.raised # "None"
          THEN /\ EndTx(rollback(committed, e.db))
               /\ Finish(<<"raise", e.raised>>, <<>>)
          ELSE /\ EndTx(commit(committed, e.db))
               /\ log' = <<<<"ORDER_FILLED", locals.ticker, locals.result.avg_price,
                             locals.signal_id, locals.position_id, e.first_event_id>>>>
               /\ \E notified \in {log_and_notify(delivery) : delivery \in Deliveries} :
                      IF notified = "raise"
                      THEN /\ pc' = "idle"
                           /\ locals' = NoLocals
                           /\ ret' = <<"raise", "Exception">>
                      ELSE /\ pc' = "exit"
                           /\ UNCHANGED <<locals, ret>>
    /\ UNCHANGED <<kill_switch, today, broker_log, gate_in, gate_out, conc>>

\* Tx #3: close simulation (OPEN -> CLOSED)
Phase3(d, l) ==
    LET r1 == insert_order(d, l.position_id, l.signal_id, l.ticker, "SELL", l.qty,
                           "MARKET", "SENT", None)
        exit_order_id == r1.ret
        d2 == update_order_filled(r1.db, exit_order_id, ExitPrice)
        r3 == set_position_closed(d2, l.position_id, "TIME_EXIT")
        r4 == insert_position_event(r3.db, l.position_id, "FULL_EXIT", "EXECUTED",
                  "TIME_EXIT", <<l.signal_id, exit_order_id, ExitPrice>>,
                  Key("exit", l.position_id, exit_order_id))
    IN IF r3.ret # "OK"
       THEN [db |-> r3.db, raised |-> r3.ret]
       ELSE [db |-> r4.db, raised |-> "None"]

\* the database after the first k statements of Tx #3
Phase3Writes(d, l, k) ==
    LET r1 == insert_order(d, l.position_id, l.signal_id, l.ticker, "SELL", l.qty,
                           "MARKET", "SENT", None)
        d2 == update_order_filled(r1.db, r1.ret, ExitPrice)
        r3 == set_position_closed(d2, l.position_id, "TIME_EXIT")
        r4 == insert_position_event(r3.db, l.position_id, "FULL_EXIT", "EXECUTED",
                  "TIME_EXIT", <<l.signal_id, r1.ret, ExitPrice>>,
                  Key("exit", l.position_id, r1.ret))
    IN IF k = 0 THEN d ELSE IF k = 1 THEN r1.db ELSE IF k = 2 THEN d2
       ELSE IF k = 3 THEN r3.db ELSE r4.db

execute_signal_exit ==
    /\ pc = "exit"
    /\ LET x == Phase3(view, locals)
       IN IF x.raised # "None"
          THEN /\ EndTx(rollback(committed, x.db))
               /\ Finish(<<"raise", x.raised>>, log)
          ELSE /\ EndTx(commit(committed, x.db))
               /\ Finish(<<"return", "True">>,
                         Append(log, <<"POSITION_CLOSED", locals.position_id, "TIME_EXIT">>))
    /\ UNCHANGED <<kill_switch, today, broker_log, gate_in, gate_out, conc>>

\* except Exception: db.rollback(); raise -- a store call or commit() failing
\* inside the try block of Tx #2 or Tx #3
execute_signal_except ==
    /\ pc \in {"broker", "entry", "exit"}
    /\ EndTx(rollback(committed, view))
    /\ Finish(<<"raise", "Exception">>, log)
    /\ UNCHANGED <<kill_switch, today, broker_log, gate_in, gate_out, conc>>

\* the except handler of Tx #3, once k of its statements are done
execute_signal_exit_except(k) ==
    /\ pc = "exit"
    /\ EndTx(rollback(committed, Phase3Writes(view, locals, k)))
    /\ Finish(<<"raise", "Exception">>, log)
    /\ UNCHANGED <<kill_switch, today, broker_log, gate_in, gate_out, conc>>

\* The process dies: sqlite discards the open transaction, and the restarted
\* process has a fresh kill switch
Crash ==
    /\ pc # "idle"
    /\ EndTx(rollback(committed, view))
    /\ Finish(<<"crash">>, log)
    /\ kill_switch' = FALSE
    /\ UNCHANGED <<today, broker_log, gate_in, gate_out, conc>>

----------------------------------------------------------------------------
(* Environment of the pipeline *)

KillSwitchOn ==
    /\ kill_switch' = TRUE
    /\ UNCHANGED <<committed, view, intx, today, pc, locals, ret, log, broker_log,
                   gate_in, gate_out, conc>>

KillSwitchOff ==
    /\ kill_switch' = FALSE
    /\ UNCHANGED <<committed, view, intx, today, pc, locals, ret, log, broker_log,
                   gate_in, gate_out, conc>>

\* update risk_state set trading_enabled=? where trade_date=?
UpdateTradingEnabled(d, trade_date, v) ==
    [d EXCEPT !.risk_state =
         [i \in DOMAIN @ |-> IF @[i].trade_date = trade_date
                             THEN [@[i] EXCEPT !.trading_enabled = v] ELSE @[i]]]

\* Risk management sets today's flag, as the flow tests do:
\* ensure_risk_state_today(); update ...; commit()
SetTradingEnabled(v) ==
    /\ pc = "idle"
    /\ ~intx
    /\ LET d == UpdateTradingEnabled(ensure_risk_state_today(view, today), today, v)
       IN EndTx(commit(committed, d))
    /\ UNCHANGED <<kill_switch, today, pc, locals, ret, log, broker_log, gate_in, gate_out, conc>>

NextDay ==
    /\ pc = "idle"
    /\ today < MaxDay
    /\ today' = today + 1
    /\ UNCHANGED <<committed, view, intx, kill_switch, pc, locals, ret, log, broker_log,
                   gate_in, gate_out, conc>>

----------------------------------------------------------------------------
(* Further connections to the database file (sqlite3.connect per caller).
   sqlite lets one connection write at a time: a writer holds the file's
   write lock from its first statement until it commits or rolls back, and
   another connection's write waits for it. *)

Conns == {1, 2}

IdleSession ==
    [ pc |-> "idle", price |-> 0, autocommit |-> TRUE, intx |-> FALSE,
      view |-> EmptyDB, outcome |-> "none" ]

NoSessions == [lock |-> 0, sess |-> [c \in Conns |-> IdleSession]]

----------------------------------------------------------------------------
(* The pipeline: one process calling the two pipeline functions *)

Init ==
    /\ committed = EmptyDB
    /\ view = EmptyDB
    /\ intx = FALSE
    /\ kill_switch = FALSE
    /\ today = 1
    /\ pc = "idle"
    /\ locals = NoLocals
    /\ ret = <<"none">>
    /\ log = <<>>
    /\ broker_log = <<>>
    /\ gate_in = NoRow
    /\ gate_out = RiskDecision(TRUE, "None")
    /\ conc = NoSessions

Next ==
    \/ ingest_and_create_signal(sample_news)
    \/ \E s \in Ids(committed.signal_scores), q \in Qtys : execute_signal_gate(s, q)
    \/ \E r \in BrokerOutcomes(EntryRequest(locals)) : execute_signal_broker(r)
    \/ execute_signal_entry
    \/ execute_signal_exit
    \/ execute_signal_except
    \/ \E k \in 1..4 : execute_signal_exit_except(k)
    \/ \E k \in 0..3 : ingest_and_create_signal_except(sample_news, k)
    \/ Crash
    \/ KillSwitchOn
    \/ KillSwitchOff
    \/ \E v \in {0, 1} : SetTradingEnabled(v)
    \/ NextDay

Spec == Init /\ [][Next]_vars

\* the broker call returns or throws, and the statements after it run
SpecFair ==
    /\ Spec
    /\ WF_vars(\E r \in BrokerOutcomes(EntryRequest(locals)) : execute_signal_broker(r))
    /\ WF_vars(execute_signal_entry)


----------------------------------------------------------------------------
(* The store called directly (as the lifecycle tests do), one call per step *)

StoreFrame == UNCHANGED <<kill_switch, today, pc, locals, log, broker_log, gate_in, gate_out, conc>>

\* a statement that commits whatever its autocommit flag
Statement_always_commits(db_after, commits) ==
    /\ view' = db_after
    /\ committed' = db_after
    /\ intx' = FALSE

\* A data-changing statement run outside Tx control: sqlite3 opens a
\* transaction before it, and the operation commits only when autocommit is
\* set and no exception cut it short.
Statement(db_after, commits) ==
    /\ view' = db_after
    /\ IF commits
       THEN committed' = db_after /\ intx' = FALSE
       ELSE committed' = committed /\ intx' = TRUE

DB_begin ==
    /\ pc = "idle"
    /\ IF intx
       THEN /\ ret' = <<"begin", "raise", "OperationalError">>
            /\ UNCHANGED intx
       ELSE /\ ret' = <<"begin", "return", "None">>
            /\ intx' = TRUE
    /\ UNCHANGED <<committed, view>>
    /\ StoreFrame

DB_commit ==
    /\ pc = "idle"
    /\ EndTx(commit(committed, view))
    /\ ret' = <<"commit", "return", "None">>
    /\ StoreFrame

DB_rollback ==
    /\ pc = "idle"
    /\ EndTx(rollback(committed, view))
    /\ ret' = <<"rollback", "return", "None">>
    /\ StoreFrame

DB_create_position(ticker, signal_id, q, autocommit) ==
    /\ pc = "idle"
    /\ Len(view.positions) < MaxStorePositions
    /\ LET r == create_position(view, ticker, signal_id, q)
       IN /\ Statement(r.db, autocommit)
          /\ ret' = <<"create_position", "return", r.ret>>
    /\ StoreFrame

DB_set_position_open(position_id, avg_entry_price, opened_value, autocommit) ==
    /\ pc = "idle"
    /\ LET r == set_position_open(view, position_id, avg_entry_price, opened_value)
       IN /\ Statement(r.db, autocommit /\ r.ret = "OK")
          /\ ret' = IF r.ret = "OK"
                    THEN <<"set_position_open", "return", "None", position_id>>
                    ELSE <<"set_position_open", "raise", r.ret, position_id>>
    /\ StoreFrame

DB_set_position_closed(position_id, reason_code, autocommit) ==
    /\ pc = "idle"
    /\ LET r == set_position_closed(view, position_id, reason_code)
       IN /\ Statement(r.db, autocommit /\ r.ret = "OK")
          /\ ret' = IF r.ret = "OK"
                    THEN <<"set_position_closed", "return", "None", position_id>>
                    ELSE <<"set_position_closed", "raise", r.ret, position_id>>
    /\ StoreFrame

DB_insert_position_event(position_id, event_type, action, reason_code, detail_json, idempotency_key, autocommit) ==
    /\ pc = "idle"
    /\ LET r == insert_position_event(view, position_id, event_type, action, reason_code,
                                      detail_json, idempotency_key)
       IN /\ Len(r.db.position_events) <= MaxEvents
          /\ Statement(r.db, autocommit /\ r.ret # None)
          /\ ret' = <<"insert_position_event", "return", r.ret>>
    /\ StoreFrame

Prices == {ExpectedPrice, ExitPrice}

\* Positions lifecycle: any order of create / open / close calls and Tx control
NextPositions ==
    \/ DB_begin
    \/ DB_commit
    \/ DB_rollback
    \/ \E ac \in BOOLEAN : DB_create_position("005930", 1, 1, ac)
    \/ \E p \in 1..MaxStorePositions, price \in Prices, ac \in BOOLEAN :
           DB_set_position_open(p, price, price * 1, ac)
    \/ \E p \in 1..MaxStorePositions, ac \in BOOLEAN :
           DB_set_position_closed(p, "TIME_EXIT", ac)

SpecPositions == Init /\ [][NextPositions]_vars

\* Event log: inserts with and without idempotency keys, and Tx control
EventKeys == {NullKey, Key("entry", 1, 1), Key("entry", 1, 2)}

NextEvents ==
    \/ DB_begin
    \/ DB_commit
    \/ DB_rollback
    \/ \E et \in {"ENTRY", "FULL_EXIT"}, rc \in {"ENTRY_FILLED", "ENTRY_FILLED_DUP"},
          k \in EventKeys, ac \in BOOLEAN :
           DB_insert_position_event(1, et, "EXECUTED", rc, <<>>, k, ac)

SpecEvents == Init /\ [][NextEvents]_vars

DB_ensure_risk_state_today(trade_date, autocommit) ==
    /\ pc = "idle"
    /\ Statement(ensure_risk_state_today(view, trade_date), autocommit)
    /\ ret' = <<"ensure_risk_state_today", "return", "None">>
    /\ StoreFrame

\* Tx control around the mutating operations, deferred or not
NextTx ==
    \/ DB_begin
    \/ DB_commit
    \/ DB_rollback
    \/ \E day \in 1..MaxDay, ac \in BOOLEAN : DB_ensure_risk_state_today(day, ac)
    \/ \E ac \in BOOLEAN : DB_create_position("005930", 1, 1, ac)

SpecTx == Init /\ [][NextTx]_vars

DB_insert_news_if_new(item, autocommit) ==
    /\ pc = "idle"
    /\ LET r == insert_news_if_new(view, item)
       IN /\ Len(r.db.news_events) <= MaxNews
          /\ Statement(r.db, autocommit /\ r.ret # None)
          /\ ret' = <<"insert_news_if_new", "return", r.ret>>
    /\ StoreFrame

\* item dicts as seed_signal builds them, the tier in and out of {1,2,3}
StoreItems ==
    { [ source |-> "test", tier |-> t, title |-> "T_SAMSUNG_ELEC", url |-> u,
        raw_hash |-> <<"test", h, "T_SAMSUNG_ELEC">> ] :
          t \in {2, 4}, u \in {UrlList[1], UrlList[2], NullText},
          h \in {UrlList[1], UrlList[2]} }

\* the two inserts that report a refused row as None, on good and bad rows
NextInserts ==
    \/ DB_commit
    \/ DB_rollback
    \/ \E item \in StoreItems, ac \in BOOLEAN : DB_insert_news_if_new(item, ac)
    \/ \E et \in {"ENTRY", "BOGUS"}, k \in {NullKey, Key("entry", 1, 1)}, ac \in BOOLEAN :
           DB_insert_position_event(1, et, "EXECUTED", "ENTRY_FILLED", <<>>, k, ac)

SpecInserts == Init /\ [][NextInserts]_vars

----------------------------------------------------------------------------
(* Standalone use of the store: every operation with autocommit=True, on
   rows that are accepted and rows that are refused, and Tx control *)

StandaloneItems ==
    { [ source |-> "test", tier |-> 2, title |-> "T_SAMSUNG_ELEC", url |-> u,
        raw_hash |-> <<"test", u, "T_SAMSUNG_ELEC">> ] : u \in {UrlList[1], UrlList[2]} }

NextStandalone ==
    \/ DB_begin
    \/ DB_commit
    \/ DB_rollback
    \/ DB_create_position("005930", 1, 1, TRUE)
    \/ \E p \in 1..MaxStorePositions : DB_set_position_open(p, ExpectedPrice, ExpectedPrice, TRUE)
    \/ \E p \in 1..MaxStorePositions : DB_set_position_closed(p, "TIME_EXIT", TRUE)
    \/ \E item \in StandaloneItems : DB_insert_news_if_new(item, TRUE)
    \/ \E k \in {NullKey, Key("entry", 1, 1)} :
           DB_insert_position_event(1, "ENTRY", "EXECUTED", "ENTRY_FILLED", <<>>, k, TRUE)

SpecStandalone == Init /\ [][NextStandalone]_vars

----------------------------------------------------------------------------
(* KISBroker.send_order: app/execution/kis_broker.py.  Quantities are in
   tenths; the response is what _order_cash returned (r.json()) *)

\* round(x) of Python for x = q10 / 10: to the nearest integer, a tie to the even one
round(q10) ==
    LET fl == q10 \div 10
        r == q10 % 10
    IN IF r < 5 THEN fl
       ELSE IF r > 5 THEN fl + 1
       ELSE IF fl % 2 = 0 THEN fl ELSE fl + 1

\* str(data.get("rt_cd", "")): a JSON string is itself, a JSON number its
\* decimal text, a missing field the empty string
RtCds ==
    { [json |-> "string", text |-> "0"], [json |-> "string", text |-> "1"],
      [json |-> "string", text |-> "00"], [json |-> "string", text |-> ""],
      [json |-> "number", text |-> "0"], [json |-> "number", text |-> "7"],
      [json |-> "missing", text |-> ""] }

str(v) == v.text

\* responses: rt_cd, msg1 / msg_cd ("" when absent) and output (absent, or an
\* object with ODNO / odno, "" when absent)
Responses ==
    [ rt_cd : RtCds,
      msg1 : {"", "INVALID"},
      msg_cd : {"E1"},
      output : {NoRow, <<[ODNO |-> "12345", odno |-> ""]>>, <<[ODNO |-> "", odno |-> ""]>>} ]
        \cup [ rt_cd : {[json |-> "string", text |-> "0"], [json |-> "string", text |-> "1"]},
               msg1 : {""}, msg_cd : {""},
               output : {<<[ODNO |-> "", odno |-> "777"]>>} ]

\* OrderRequest: qty in tenths, expected_price None or a price
KisRequests ==
    [ signal_id : {1}, ticker : {"005930"}, side : {"BUY"},
      qty : {0 - 10, 4, 10, 15, 25, 26}, expected_price : {NoRow, <<0>>, <<ExpectedPrice>>} ]

\* x or y or z on strings
Or3(x, y, z) == IF x # "" THEN x ELSE IF y # "" THEN y ELSE z

\* a blank rt_cd taken for an accepted order
send_order_accepts_blank(req, data) ==
    IF str(data.rt_cd) \notin {"0", ""}
    THEN [ status |-> "REJECTED", filled_qty |-> 0, avg_price |-> 0,
           reason_code |-> <<Or3(data.msg1, data.msg_cd, "KIS_ORDER_REJECTED")>> ]
    ELSE [ status |-> "FILLED", filled_qty |-> Max2(1, round(req.qty)), avg_price |-> 0,
           reason_code |-> <<"ORDER_ACCEPTED">> ]

send_order(req, data) ==
    LET rt_cd == str(data.rt_cd)
        out == IF data.output = NoRow THEN [ODNO |-> "", odno |-> ""] ELSE data.output[1]
        ord_no == Or3(out.ODNO, out.odno, "")
        avg == IF req.expected_price = NoRow \/ req.expected_price[1] = 0
               THEN 0 ELSE req.expected_price[1]
    IN IF rt_cd # "0"
       THEN [ status |-> "REJECTED", filled_qty |-> 0, avg_price |-> 0,
              reason_code |-> <<Or3(data.msg1, data.msg_cd, "KIS_ORDER_REJECTED")>> ]
       ELSE [ status |-> "FILLED", filled_qty |-> Max2(1, round(req.qty)),
              avg_price |-> avg,
              reason_code |-> IF ord_no # "" THEN <<"ORDER_ACCEPTED", ord_no>>
                              ELSE <<"ORDER_ACCEPTED">> ]

Call_send_order(req, data) ==
    /\ pc = "idle"
    /\ ret' = <<"send_order", req, data, send_order(req, data)>>
    /\ UNCHANGED <<committed, view, intx>>
    /\ StoreFrame

NextKis == \E req \in KisRequests, data \in Responses : Call_send_order(req, data)

SpecKis == Init /\ [][NextKis]_vars

----------------------------------------------------------------------------
(* The scorer called directly *)

\* ScoreInput values: every component 0 or 100, three risk penalties
ScoreInputs ==
    [ impact : {0, 100}, source_reliability : {0, 100}, novelty : {0, 100},
      market_reaction : {0, 100}, liquidity : {0, 100}, risk_penalty : {0, 10, 150} ]

\* weights arguments: None, all five at 0.0, all five at 1.0, impact alone at 1.0
WeightArgs ==
    { NoRow,
      <<[k \in DOMAIN DEFAULT_WEIGHTS |-> 0]>>,
      <<[k \in DOMAIN DEFAULT_WEIGHTS |-> 100]>>,
      <<[impact |-> 100]>> }

Call_compute_scores(inp, weights) ==
    /\ pc = "idle"
    /\ ret' = <<"compute_scores", inp, weights, compute_scores(inp, weights)>>
    /\ UNCHANGED <<committed, view, intx>>
    /\ StoreFrame

NextScores == \E inp \in ScoreInputs, weights \in WeightArgs : Call_compute_scores(inp, weights)

SpecScores == Init /\ [][NextScores]_vars

----------------------------------------------------------------------------
(* Phase 1 alone, fed by a connector that delivers any item *)

NextFeed ==
    \E news \in FeedItems :
        /\ ingest_and_create_signal(news)
        /\ Len(committed'.news_events) <= MaxNews

SpecFeed == Init /\ [][NextFeed]_vars

----------------------------------------------------------------------------
(* Phase 1 with any feed item, any mapper result and any failing statement *)

Confidences == {20, 91, 92, 98}

\* what a mapper may return: None, or a MappingResult of any confidence
MapperResults ==
    {NoRow} \cup { <<[ ticker |-> "005930", company_name |-> "SAMSUNG_ELEC",
                      confidence |-> c, method |-> "alias_dict" ]>> : c \in Confidences }

\* the sample, another mappable event, an unmappable one and one without a url
IngestItems ==
    { sample_news,
      [sample_news EXCEPT !.title = "T_SK_HYNIX", !.url = UrlList[2]],
      [sample_news EXCEPT !.title = "T_OTHER", !.url = UrlList[3]],
      [sample_news EXCEPT !.url = NullText] }

NextIngest ==
    \/ \E news \in IngestItems :
           /\ ingest_and_create_signal(news)
           /\ Len(committed'.news_events) <= MaxNews
    \/ \E news \in IngestItems, mapping \in MapperResults :
           /\ ingest_and_create_signal_mapped(news, mapping)
           /\ Len(committed'.news_events) <= MaxNews
    \/ \E news \in IngestItems, k \in 0..3 : ingest_and_create_signal_except(news, k)

SpecIngest == Init /\ [][NextIngest]_vars

----------------------------------------------------------------------------
(* Phase 1 over a tuned registry: the score_weights row holds any subset of
   the five weights, each at 0.50 *)

RegistryValues == { [k \in S |-> 50] : S \in SUBSET ScoreWeightKeys }

\* update parameter_registry set value_json = ? where name = 'score_weights'; commit
SetScoreWeights(value_json) ==
    /\ pc = "idle"
    /\ ~intx
    /\ LET d == [view EXCEPT !.parameter_registry =
                     [i \in Ids(@) |-> IF @[i].name = "score_weights"
                                       THEN [@[i] EXCEPT !.value_json = value_json]
                                       ELSE @[i]]]
       IN EndTx(commit(committed, d))
    /\ UNCHANGED <<kill_switch, today, pc, locals, ret, log, broker_log, gate_in, gate_out, conc>>

NextWeights ==
    \/ \E value_json \in RegistryValues : SetScoreWeights(value_json)
    \/ \E news \in IngestItems :
           /\ ingest_and_create_signal(news)
           /\ Len(committed'.news_events) <= MaxNews

SpecWeights == Init /\ [][NextWeights]_vars

----------------------------------------------------------------------------
(* The pipeline beside a caller that has already recorded a step's event:
   insert_position_event called directly with the key the pipeline will use *)

ReplayedEvents ==
    { [type |-> "ENTRY", key |-> Key("entry", 1, 1)],
      [type |-> "FULL_EXIT", key |-> Key("exit", 1, 2)],
      [type |-> "ENTRY", key |-> Key("entry", 2, 3)],
      [type |-> "FULL_EXIT", key |-> Key("exit", 2, 4)] }

NextRetry ==
    \/ ingest_and_create_signal(sample_news)
    \/ \E s \in Ids(committed.signal_scores) : execute_signal_gate(s, 1)
    \/ \E r \in BrokerOutcomes(EntryRequest(locals)) : execute_signal_broker(r)
    \/ execute_signal_entry
    \/ execute_signal_exit
    \/ \E e \in ReplayedEvents :
           /\ ~intx
           /\ DB_insert_position_event(e.key[2], e.type, "EXECUTED", "REPLAYED", <<>>,
                                       e.key, TRUE)
    \/ DB_rollback

SpecRetry == Init /\ [][NextRetry]_vars

----------------------------------------------------------------------------
(* The orders table called directly *)

MaxOrders == 2

DB_insert_order(position_id, signal_id, ticker, side, q, order_type, status, price, autocommit) ==
    /\ pc = "idle"
    /\ Len(view.orders) < MaxOrders
    /\ LET r == insert_order(view, position_id, signal_id, ticker, side, q, order_type,
                             status, price)
       IN /\ Statement(r.db, autocommit)
          /\ ret' = <<"insert_order", "return", r.ret>>
    /\ StoreFrame

DB_update_order_filled(order_id, price, autocommit) ==
    /\ pc = "idle"
    /\ Statement(update_order_filled(view, order_id, price), autocommit)
    /\ ret' = <<"update_order_filled", "return", None, order_id>>
    /\ StoreFrame

NextOrders ==
    \/ DB_begin
    \/ DB_commit
    \/ DB_rollback
    \/ \E side \in {"BUY", "SELL"}, ac \in BOOLEAN :
           DB_insert_order(1, 1, "005930", side, 1, "MARKET", "SENT", None, ac)
    \/ \E order_id \in 1..MaxOrders, price \in Prices, ac \in BOOLEAN :
           DB_update_order_filled(order_id, price, ac)

SpecOrders == Init /\ [][NextOrders]_vars

----------------------------------------------------------------------------
(* The Signal Integrity Check called directly *)

MaxNewsId == 3

\* EventTicker(id, news_id, map_confidence): confidences around the default
\* threshold and around a lower one
EventTickers ==
    [ id : {1}, news_id : 1..MaxNewsId, map_confidence : {0, 49, 50, 91, 92, 93, 100} ]

\* min_conf: the default 0.92 and an explicit 0.50
MinConfs == {MinConf, 50}

Call_validate_signal_binding(input_news_id, event_ticker, min_conf) ==
    /\ pc = "idle"
    /\ ret' = <<"validate_signal_binding", input_news_id, event_ticker, min_conf,
                validate_signal_binding(input_news_id, event_ticker, min_conf)>>
    /\ UNCHANGED <<committed, view, intx>>
    /\ StoreFrame

NextBinding ==
    \E input_news_id \in 1..MaxNewsId, event_ticker \in EventTickers, min_conf \in MinConfs :
        Call_validate_signal_binding(input_news_id, event_ticker, min_conf)

SpecBinding == Init /\ [][NextBinding]_vars

----------------------------------------------------------------------------
(* The Risk Gate alone: can_trade on any account_state, the switch toggling *)

AccountStates ==
    {NoRow, <<[trade_date |-> 1]>>}
        \cup {<<[trade_date |-> 1, trading_enabled |-> v]>> : v \in (0 - MaxTE)..MaxTE}

CanTrade(account_state) ==
    /\ pc = "idle"
    /\ gate_in' = account_state
    /\ gate_out' = can_trade(account_state)
    /\ UNCHANGED <<committed, view, intx, kill_switch, today, pc, locals, ret, log,
                   broker_log, conc>>

NextGate ==
    \/ KillSwitchOn
    \/ KillSwitchOff
    \/ \E a \in AccountStates : CanTrade(a)

SpecGate == Init /\ [][NextGate]_vars

----------------------------------------------------------------------------
(* Two connections each calling set_position_open on position 1 *)

ConcFrame == UNCHANGED <<intx, kill_switch, today, pc, locals, ret, log, broker_log,
                         gate_in, gate_out>>

\* set_position_open(1, price, price * qty, autocommit) is called on connection c
Conc_call(c, price, autocommit) ==
    /\ conc.sess[c].pc = "idle"
    /\ conc' = [conc EXCEPT !.sess[c] = [@ EXCEPT !.pc = "update", !.price = price,
                                                   !.autocommit = autocommit]]
    /\ UNCHANGED <<committed, view>>
    /\ ConcFrame

\* cur.execute(update ...) and the rowcount test: waits for the write lock
Conc_update(c) ==
    /\ conc.sess[c].pc = "update"
    /\ conc.lock \in {0, c}
    /\ LET me == conc.sess[c]
           base == IF me.intx THEN me.view ELSE committed
           r == set_position_open(base, 1, me.price, me.price * 1)
       IN conc' = [conc EXCEPT
                     !.lock = c,
                     !.sess[c] = [me EXCEPT
                         !.intx = TRUE,
                         !.view = r.db,
                         !.pc = IF r.ret # "OK" THEN "done"
                                ELSE IF me.autocommit THEN "commit" ELSE "held",
                         !.outcome = IF r.ret # "OK" THEN r.ret ELSE "returned"]]
    /\ UNCHANGED <<committed, view>>
    /\ ConcFrame

\* self.conn.commit() of the call itself (autocommit), or of its caller later
Conc_commit(c) ==
    /\ conc.sess[c].pc \in {"commit", "held"}
    /\ LET t == commit(committed, conc.sess[c].view)
       IN /\ committed' = t.committed
          /\ view' = t.committed
    /\ conc' = [conc EXCEPT !.lock = 0,
                            !.sess[c] = [@ EXCEPT !.intx = FALSE, !.pc = "done",
                                                  !.outcome = "committed"]]
    /\ ConcFrame

\* the caller of a deferred call rolls back instead
Conc_rollback(c) ==
    /\ conc.sess[c].pc = "held"
    /\ conc' = [conc EXCEPT !.lock = 0,
                            !.sess[c] = [@ EXCEPT !.intx = FALSE, !.pc = "done",
                                                  !.view = committed,
                                                  !.outcome = "rolled back"]]
    /\ UNCHANGED <<committed, view>>
    /\ ConcFrame

\* position 1 exists and is PENDING_ENTRY: create_position("005930", 1, 1.0)
InitConc ==
    /\ committed = create_position(EmptyDB, "005930", 1, 1).db
    /\ view = committed
    /\ intx = FALSE
    /\ kill_switch = FALSE
    /\ today = 1
    /\ pc = "idle"
    /\ locals = NoLocals
    /\ ret = <<"create_position", "return", 1>>
    /\ log = <<>>
    /\ broker_log = <<>>
    /\ gate_in = NoRow
    /\ gate_out = RiskDecision(TRUE, "None")
    /\ conc = NoSessions

NextConc ==
    \/ \E c \in Conns, price \in Prices, ac \in BOOLEAN : Conc_call(c, price, ac)
    \/ \E c \in Conns : Conc_update(c)
    \/ \E c \in Conns : Conc_commit(c)
    \/ \E c \in Conns : Conc_rollback(c)

SpecConc == InitConc /\ [][NextConc]_vars

----------------------------------------------------------------------------
(* Properties of the execution pipeline, checked under Spec *)

BuysFilled(s) ==
    Cardinality({i \in DOMAIN broker_log :
                    /\ broker_log[i].signal_id = s
                    /\ broker_log[i].side = "BUY"
                    /\ broker_log[i].status = "FILLED"})

EntryOrders(d, s) ==
    {i \in Ids(d.orders) : /\ d.orders[i].signal_id = s
                           /\ d.orders[i].side = "BUY"
                           /\ d.orders[i].status = "FILLED"}

Opened(d, s) ==
    {p \in Ids(d.positions) : /\ d.positions[p].signal_id = s
                              /\ d.positions[p].status \in {"OPEN", "CLOSED"}}

\* C1: no double orders.  For every signal at most one BUY order reaches the
\* broker and at most one position is ever committed as opened.  Stated on the
\* orders the broker filled: more than one filled entry order, or more than one
\* opened position, for one signal is a double order under any reading.
C1_NoDoubleOrders ==
    \A s \in Ids(committed.signal_scores) :
        /\ BuysFilled(s) <= 1
        /\ Cardinality(Opened(committed, s)) <= 1

\* C2: no lost fills.  Once an execution is over, every entry order the broker
\* filled has its FILLED BUY order and its opened position in committed state.
C2_NoLostFills ==
    pc = "idle" =>
        \A s \in Ids(committed.signal_scores) :
            /\ BuysFilled(s) <= Cardinality(EntryOrders(committed, s))
            /\ BuysFilled(s) <= Cardinality(Opened(committed, s))

\* the Risk Gate blocks today: kill switch on, or today's trading_enabled is not 1
GateBlocks ==
    \/ kill_switch
    \/ \E i \in Ids(committed.risk_state) :
          /\ committed.risk_state[i].trade_date = today
          /\ committed.risk_state[i].trading_enabled # 1

\* C9: an execution blocked by the Risk Gate returns False, calls no broker and
\* leaves the committed database exactly as it was (no positions, orders,
\* position_events row and no new or modified risk_state row).
C9_BlockedLeavesNoTrace ==
    [][ \A s \in Ids(committed.signal_scores), q \in Qtys :
          (execute_signal_gate(s, q) /\ GateBlocks) =>
              /\ ret' = <<"return", "False">>
              /\ pc' = "idle"
              /\ committed' = committed
              /\ view' = committed
              /\ ~intx'
              /\ broker_log' = broker_log ]_vars

\* a call was blocked by the kill switch on a day with no risk_state row yet
C9_Witness ==
    /\ pc = "idle"
    /\ ret = <<"return", "False">>
    /\ log = <<<<"BLOCKED", "KILL_SWITCH_ON">>>>
    /\ committed.signal_scores # <<>>
    /\ committed.risk_state = <<>>

\* C10: when the entry order's result is not FILLED, Phase 2 returns False,
\* Phase 3 is not run, and nothing written in that transaction persists: no
\* order, no position and no position_events row (the BLOCK event included).
C10_NotFilledRollsBack ==
    [][ \A r \in BrokerOutcomes(EntryRequest(locals)) :
          (execute_signal_broker(r) /\ r.status \notin {"FILLED", "THROWS"}) =>
              /\ ret' = <<"return", "False">>
              /\ pc' = "idle"
              /\ committed' = committed
              /\ view' = committed
              /\ ~intx'
              /\ \A i \in Ids(committed'.position_events) :
                     committed'.position_events[i].idempotency_key
                         # Key("block", locals.position_id, locals.order_id) ]_vars

\* a partially filled entry order ended the call with nothing persisted
C10_Witness ==
    /\ pc = "idle"
    /\ ret = <<"return", "False">>
    /\ log = <<<<"BLOCKED", "ORDER_NOT_FILLED">>>>
    /\ broker_log # <<>>
    /\ broker_log[Len(broker_log)].status = "PARTIAL_FILLED"
    /\ committed.orders = <<>>
    /\ committed.positions = <<>>
    /\ committed.position_events = <<>>

----------------------------------------------------------------------------
(* Properties of the position state machine, checked under SpecPositions *)

StatusOf(d, p) == IF p \in Ids(d.positions) THEN d.positions[p].status ELSE "ABSENT"

Rank(status) ==
    CASE status = "PENDING_ENTRY" -> 1
      [] status = "OPEN" -> 2
      [] status = "CLOSED" -> 3
      [] OTHER -> 0

LegalMove(old, new) ==
    \/ new = old
    \/ old.status = "PENDING_ENTRY" /\ new.status = "OPEN"
    \/ old.status = "OPEN" /\ new.status = "CLOSED"

PositionCall ==
    \/ \E ac \in BOOLEAN : DB_create_position("005930", 1, 1, ac)
    \/ \E p \in 1..MaxStorePositions, price \in Prices, ac \in BOOLEAN :
           DB_set_position_open(p, price, price * 1, ac)
    \/ \E p \in 1..MaxStorePositions, ac \in BOOLEAN :
           DB_set_position_closed(p, "TIME_EXIT", ac)

\* C3: a position is created PENDING_ENTRY; a create / open / close call moves
\* no position except PENDING_ENTRY -> OPEN or OPEN -> CLOSED and changes no
\* field of a CLOSED one; in committed state a position never goes back and a
\* CLOSED row is never changed again.
C3_PositionStateMachine ==
    [][ /\ PositionCall =>
              /\ \A p \in Ids(view.positions) :
                     /\ p \in Ids(view'.positions)
                     /\ LegalMove(view.positions[p], view'.positions[p])
              /\ \A p \in Ids(view'.positions) \ Ids(view.positions) :
                     view'.positions[p].status = "PENDING_ENTRY"
        /\ \A p \in Ids(committed.positions) :
              /\ p \in Ids(committed'.positions)
              /\ Rank(committed'.positions[p].status) >= Rank(committed.positions[p].status)
              /\ committed.positions[p].status = "CLOSED" =>
                     committed'.positions[p] = committed.positions[p] ]_vars

\* a position went through the whole lifecycle and a second one was created after
C3_Witness ==
    /\ Len(committed.positions) = 2
    /\ committed.positions[1].status = "CLOSED"
    /\ committed.positions[1].avg_entry_price = ExpectedPrice
    /\ committed.positions[1].exit_reason_code = "TIME_EXIT"
    /\ committed.positions[2].status = "PENDING_ENTRY"

\* C4: set_position_open on a position that is not PENDING_ENTRY (OPEN, CLOSED
\* or absent) raises IllegalTransitionError and changes no row; likewise
\* set_position_closed on a position that is not OPEN.
C4_IllegalTransitionRejected ==
    [][ /\ \A p \in 1..MaxStorePositions, price \in Prices, ac \in BOOLEAN :
              (DB_set_position_open(p, price, price * 1, ac)
                  /\ StatusOf(view, p) # "PENDING_ENTRY") =>
                  /\ ret' = <<"set_position_open", "raise", "IllegalTransitionError", p>>
                  /\ view' = view
                  /\ committed' = committed
        /\ \A p \in 1..MaxStorePositions, ac \in BOOLEAN :
              (DB_set_position_closed(p, "TIME_EXIT", ac)
                  /\ StatusOf(view, p) # "OPEN") =>
                  /\ ret' = <<"set_position_closed", "raise", "IllegalTransitionError", p>>
                  /\ view' = view
                  /\ committed' = committed ]_vars

\* closing a CLOSED position was refused
C4_Witness ==
    /\ ret = <<"set_position_closed", "raise", "IllegalTransitionError", 1>>
    /\ StatusOf(view, 1) = "CLOSED"

----------------------------------------------------------------------------
(* Properties of the event log, checked under SpecEvents *)

UniqueKeys(d) ==
    \A i, j \in Ids(d.position_events) :
        (i # j /\ d.position_events[i].idempotency_key # NullKey) =>
            d.position_events[i].idempotency_key # d.position_events[j].idempotency_key

HasKey(d, k) == \E i \in Ids(d.position_events) : d.position_events[i].idempotency_key = k

\* C6: no two position_events rows share a non-null idempotency_key; an insert
\* whose key is already there returns None and adds no row, whatever its other
\* fields; any other insert (a new key, or no key) returns the new id and adds
\* its row.
C6_IdempotencyKeyUnique ==
    /\ [](UniqueKeys(view) /\ UniqueKeys(committed))
    /\ [][ \A et \in {"ENTRY", "FULL_EXIT"}, rc \in {"ENTRY_FILLED", "ENTRY_FILLED_DUP"},
              k \in EventKeys, ac \in BOOLEAN :
              DB_insert_position_event(1, et, "EXECUTED", rc, <<>>, k, ac) =>
                  IF k # NullKey /\ HasKey(view, k)
                  THEN /\ ret' = <<"insert_position_event", "return", None>>
                       /\ view'.position_events = view.position_events
                       /\ committed' = committed
                  ELSE /\ ret' = <<"insert_position_event", "return",
                                   Len(view.position_events) + 1>>
                       /\ Len(view'.position_events) = Len(view.position_events) + 1
                       /\ view'.position_events[Len(view.position_events) + 1].idempotency_key = k
                       /\ view'.position_events[Len(view.position_events) + 1].reason_code = rc
                       /\ \A i \in Ids(view.position_events) :
                              view'.position_events[i] = view.position_events[i] ]_vars

\* a keyed insert was refused as a duplicate while two key-less rows coexist
C6_Witness ==
    /\ ret = <<"insert_position_event", "return", None>>
    /\ Len(view.position_events) = 3
    /\ view.position_events[1].idempotency_key = Key("entry", 1, 1)
    /\ view.position_events[2].idempotency_key = NullKey
    /\ view.position_events[3].idempotency_key = NullKey

----------------------------------------------------------------------------
(* Properties of two concurrent opens, checked under SpecConc *)

Committers == {c \in Conns : conc.sess[c].outcome = "committed"}

----------------------------------------------------------------------------
(* Properties of news de-duplication, checked under SpecFeed *)

SameEvent(row, news) ==
    row.source = news.source /\ row.url = news.url /\ row.title = news.title

RowsFor(d, news) == {i \in Ids(d.news_events) : SameEvent(d.news_events[i], news)}

SignalsFor(d, news) ==
    {j \in Ids(d.signal_scores) : d.signal_scores[j].news_id \in RowsFor(d, news)}

UniqueNews(d) ==
    \A i, j \in Ids(d.news_events) :
        i # j => /\ d.news_events[i].raw_hash # d.news_events[j].raw_hash
                 /\ \/ d.news_events[i].url = NullText
                    \/ d.news_events[i].url # d.news_events[j].url

----------------------------------------------------------------------------
(* Properties of the Risk Gate, checked under SpecGate *)

HasTradingEnabled(a) == a # NoRow /\ "trading_enabled" \in DOMAIN a[1]

\* C8: the decision table of can_trade, first match wins: kill switch on gives
\* (FALSE, KILL_SWITCH_ON) whatever the account_state; kill switch off with a
\* state whose trading_enabled is not 1 gives (FALSE, RISK_DISABLED); otherwise
\* (TRUE, no reason code).
C8_RiskGateTable ==
    [][ \A a \in AccountStates :
            CanTrade(a) =>
                /\ kill_switch =>
                       gate_out' = [allowed |-> FALSE, reason_code |-> "KILL_SWITCH_ON"]
                /\ (~kill_switch /\ HasTradingEnabled(a) /\ a[1].trading_enabled # 1) =>
                       gate_out' = [allowed |-> FALSE, reason_code |-> "RISK_DISABLED"]
                /\ (~kill_switch /\ ~(HasTradingEnabled(a) /\ a[1].trading_enabled # 1)) =>
                       gate_out' = [allowed |-> TRUE, reason_code |-> "None"] ]_vars

\* the switch is on and can_trade was asked about a disabled day
C8_Witness ==
    /\ kill_switch
    /\ gate_in = <<[trade_date |-> 1, trading_enabled |-> 0]>>
    /\ gate_out = [allowed |-> FALSE, reason_code |-> "KILL_SWITCH_ON"]

----------------------------------------------------------------------------
(* Properties of whole pipeline runs, checked under Spec *)

OrdersOf(d, p) == {i \in Ids(d.orders) : d.orders[i].position_id = p}

EventsOf(d, p) == {i \in Ids(d.position_events) : d.position_events[i].position_id = p}

\* C11: from the empty store Phase 1 on the sample event returns signal 1; an
\* execution that passes the Risk Gate and whose entry order is FILLED goes on
\* to commit the position as OPEN, and then Tx #3 returns True with the
\* position committed CLOSED / TIME_EXIT, its two orders (BUY, SELL) both
\* FILLED and its two events ENTRY and FULL_EXIT; for the first position these
\* are the only orders and position_events rows.
C11_EndToEndSuccess ==
    /\ [][ (committed = EmptyDB /\ ingest_and_create_signal(sample_news)) =>
               /\ ret' = <<"return", "bundle", 1, "005930">>
               /\ Len(committed'.signal_scores) = 1 ]_vars
    /\ [][ \A s \in Ids(committed.signal_scores), q \in Qtys :
               (execute_signal_gate(s, q) /\ ~GateBlocks) => pc' = "broker" ]_vars
    /\ [][ \A r \in BrokerOutcomes(EntryRequest(locals)) :
               (execute_signal_broker(r) /\ r.status = "FILLED") => pc' = "entry" ]_vars
    /\ [][ execute_signal_entry =>
               /\ pc' = "exit"
               /\ StatusOf(committed, locals.position_id) = "ABSENT"
               /\ StatusOf(committed', locals.position_id) = "OPEN" ]_vars
    /\ [][ execute_signal_exit =>
               LET p == locals.position_id
                   os == OrdersOf(committed', p)
                   es == EventsOf(committed', p)
               IN /\ ret' = <<"return", "True">>
                  /\ StatusOf(committed, p) = "OPEN"
                  /\ StatusOf(committed', p) = "CLOSED"
                  /\ committed'.positions[p].exit_reason_code = "TIME_EXIT"
                  /\ Cardinality(os) = 2
                  /\ {committed'.orders[i].side : i \in os} = {"BUY", "SELL"}
                  /\ \A i \in os : committed'.orders[i].status = "FILLED"
                  /\ Cardinality(es) = 2
                  /\ {committed'.position_events[i].event_type : i \in es}
                         = {"ENTRY", "FULL_EXIT"}
                  /\ p = 1 => /\ Len(committed'.orders) = 2
                              /\ Len(committed'.position_events) = 2 ]_vars

\* the first execution returned True: one CLOSED position, two orders, two events
C11_Witness ==
    /\ pc = "idle"
    /\ ret = <<"return", "True">>
    /\ Len(committed.positions) = 1
    /\ committed.positions[1].status = "CLOSED"
    /\ committed.positions[1].exit_reason_code = "TIME_EXIT"
    /\ Len(committed.orders) = 2
    /\ Len(committed.position_events) = 2

\* C12: when Tx #3 fails, after any number of its statements, the exception is
\* propagated and only Tx #3's writes are discarded: committed state is what
\* Tx #2 committed, with the position OPEN, its FILLED BUY order and its ENTRY
\* event, and with no SELL order and no FULL_EXIT event for it.
C12_Phase3FailureIsolated ==
    [][ (pc = "exit" /\ (execute_signal_except
                            \/ \E k \in 1..4 : execute_signal_exit_except(k))) =>
            LET p == locals.position_id
                os == OrdersOf(committed', p)
                es == EventsOf(committed', p)
            IN /\ ret' = <<"raise", "Exception">>
               /\ pc' = "idle"
               /\ committed' = committed
               /\ view' = committed
               /\ ~intx'
               /\ StatusOf(committed', p) = "OPEN"
               /\ \E i \in os : /\ committed'.orders[i].side = "BUY"
                                /\ committed'.orders[i].status = "FILLED"
               /\ \A i \in os : committed'.orders[i].side # "SELL"
               /\ \E i \in es : committed'.position_events[i].event_type = "ENTRY"
               /\ \A i \in es : committed'.position_events[i].event_type # "FULL_EXIT"
      ]_vars

\* Tx #3 of the first execution failed: the entry stays, nothing of the exit
C12_Witness ==
    /\ pc = "idle"
    /\ ret = <<"raise", "Exception">>
    /\ Len(log) = 1
    /\ log[1][1] = "ORDER_FILLED"
    /\ Len(committed.positions) = 1
    /\ committed.positions[1].status = "OPEN"
    /\ Len(committed.orders) = 1
    /\ view = committed

----------------------------------------------------------------------------
(* Properties of Phase 1, checked under SpecIngest *)

BoundSignals(d) ==
    \A j \in Ids(d.signal_scores) :
        LET sig == d.signal_scores[j]
        IN /\ sig.event_ticker_id \in Ids(d.event_tickers)
           /\ d.event_tickers[sig.event_ticker_id].news_id = sig.news_id
           /\ sig.news_id \in Ids(d.news_events)
           /\ d.event_tickers[sig.event_ticker_id].map_confidence >= MinConf

NewsInsertable(d, news) ==
    insert_news_if_new(d, [ source |-> news.source, tier |-> news.tier,
                            title |-> news.title, url |-> news.url,
                            raw_hash |-> build_hash(news) ]).ret # None

\* C13: every committed signal_scores row references an event_tickers row with
\* the signal's news_id and a map_confidence of at least 0.92; when the mapper
\* returns a lower confidence for a new event, validate_signal_binding raises
\* LOW_CONFIDENCE, the exception is propagated and the news, binding and
\* signal rows of that transaction are gone.
C13_NoSignalWithoutIntegrity ==
    /\ [](BoundSignals(committed) /\ BoundSignals(view))
    /\ [][ \A news \in IngestItems, mapping \in MapperResults :
             (/\ ingest_and_create_signal_mapped(news, mapping)
              /\ NewsInsertable(view, news)
              /\ mapping # NoRow) =>
                 IF mapping[1].confidence < MinConf
                 THEN /\ ret' = <<"raise", "LOW_CONFIDENCE">>
                      /\ committed' = committed
                      /\ view' = committed
                      /\ ~intx'
                 ELSE /\ ret'[2] = "bundle"
                      /\ committed'.event_tickers[Len(committed'.event_tickers)].map_confidence
                             = mapping[1].confidence ]_vars

\* the check raised on a second event while the first event's signal is stored
C13_Witness ==
    /\ ret = <<"raise", "LOW_CONFIDENCE">>
    /\ Len(committed.signal_scores) = 1
    /\ Len(committed.news_events) = 1
    /\ Len(committed.event_tickers) = 1
    /\ view = committed

\* C14: an invocation of Phase 1 that returns a (signal_id, ticker) pair has
\* committed exactly one news row, one binding for it and one signal for both,
\* and the pair names that signal; any other invocation (None returned, or an
\* exception raised at any point) leaves committed state as it was, with
\* nothing pending.
C14_Phase1AllOrNothing ==
    [][ NextIngest =>
          /\ view' = committed'
          /\ ~intx'
          /\ IF ret'[2] = "bundle"
             THEN LET n == Len(committed.news_events) + 1
                      e == Len(committed.event_tickers) + 1
                      g == Len(committed.signal_scores) + 1
                  IN /\ ret'[1] = "return"
                     /\ ret'[3] = g
                     /\ Len(committed'.news_events) = n
                     /\ Len(committed'.event_tickers) = e
                     /\ Len(committed'.signal_scores) = g
                     /\ \A i \in Ids(committed.news_events) :
                            committed'.news_events[i] = committed.news_events[i]
                     /\ \A i \in Ids(committed.event_tickers) :
                            committed'.event_tickers[i] = committed.event_tickers[i]
                     /\ \A i \in Ids(committed.signal_scores) :
                            committed'.signal_scores[i] = committed.signal_scores[i]
                     /\ committed'.event_tickers[e].news_id = n
                     /\ committed'.signal_scores[g].news_id = n
                     /\ committed'.signal_scores[g].event_ticker_id = e
                     /\ committed'.signal_scores[g].ticker = ret'[4]
             ELSE committed' = committed ]_vars

\* an unmappable event was skipped after another event had been stored
C14_Witness ==
    /\ ret = <<"return", "None">>
    /\ log = <<<<"NO_MAPPING">>>>
    /\ Len(committed.news_events) = 1
    /\ Len(committed.signal_scores) = 1
    /\ view = committed

----------------------------------------------------------------------------
(* Properties of Tx control, checked under SpecTx *)

----------------------------------------------------------------------------
(* Properties of the refused inserts, checked under SpecInserts *)

NewsUniqueViolation(d, item) ==
    \E i \in Ids(d.news_events) :
        \/ item.url # NullText /\ d.news_events[i].url = item.url
        \/ d.news_events[i].raw_hash = item.raw_hash

\* C16: insert_news_if_new returns None exactly when the item's url or
\* raw_hash is already stored, and insert_position_event returns None exactly
\* when its idempotency_key is already stored; a row refused for another
\* reason (a CHECK on tier or event_type) is not reported as None.
C16_NoneOnlyForDuplicates ==
    /\ [][ \A item \in StoreItems, ac \in BOOLEAN :
              DB_insert_news_if_new(item, ac) =>
                  (ret'[3] = None <=> NewsUniqueViolation(view, item)) ]_vars
    /\ [][ \A et \in {"ENTRY", "BOGUS"}, k \in {NullKey, Key("entry", 1, 1)},
              ac \in BOOLEAN :
              DB_insert_position_event(1, et, "EXECUTED", "ENTRY_FILLED", <<>>, k, ac) =>
                  (ret'[3] = None <=> (k # NullKey /\ HasKey(view, k))) ]_vars

----------------------------------------------------------------------------
(* Error handling and ordering of the phases, checked under Spec *)

\* a step in which one of the three transactional blocks takes its except path
ExceptionStep ==
    \/ \E k \in 0..3 : ingest_and_create_signal_except(sample_news, k)
    \/ execute_signal_broker(Throws)
    \/ execute_signal_entry /\ pc' = "idle"
    \/ execute_signal_except
    \/ execute_signal_exit /\ pc' = "idle" /\ ret' # <<"return", "True">>
    \/ \E k \in 1..4 : execute_signal_exit_except(k)

\* C17: in each phase an exception between begin() and commit() is re-raised
\* after a rollback: the call ends raising, nothing is pending, and committed
\* state is what it was when the phase began (it does not change while Tx #2
\* is open), so the position and order rows Tx #2 had created are gone.
C17_ExceptionRollsBack ==
    /\ [][ ExceptionStep =>
               /\ ret'[1] = "raise"
               /\ pc' = "idle"
               /\ committed' = committed
               /\ view' = committed
               /\ ~intx'
               /\ pc \in {"broker", "entry"} =>
                      /\ StatusOf(view, locals.position_id) = "PENDING_ENTRY"
                      /\ StatusOf(committed', locals.position_id) = "ABSENT"
                      /\ OrdersOf(view, locals.position_id) # {}
                      /\ OrdersOf(committed', locals.position_id) = {} ]_vars
    /\ [][ (pc \in {"broker", "entry"} /\ pc' # "exit") => committed' = committed ]_vars

\* the broker call threw: the exception went up and Tx #2 left nothing
C17_Witness ==
    /\ pc = "idle"
    /\ ret = <<"raise", "BrokerError">>
    /\ broker_log # <<>>
    /\ broker_log[Len(broker_log)].status = "THROWS"
    /\ committed.positions = <<>>
    /\ committed.orders = <<>>
    /\ view = committed
    /\ ~intx

SellOrders(d) == {i \in Ids(d.orders) : d.orders[i].side = "SELL"}

\* C18: Tx #3 is reached only by the step that commits the OPEN transition,
\* and while it runs the position's OPEN status is committed and nothing is
\* pending; outside Tx #3 no SELL order is written and no position is moved
\* to CLOSED, so every SELL order and every close belongs to a position whose
\* OPEN status was committed before; a call whose Tx #2 returned False or
\* raised ends there.
C18_PhaseOrdering ==
    /\ [](pc = "exit" =>
              /\ StatusOf(committed, locals.position_id) = "OPEN"
              /\ view = committed
              /\ ~intx)
    /\ [](\A i \in SellOrders(view) :
              StatusOf(committed, view.orders[i].position_id) \in {"OPEN", "CLOSED"})
    /\ [][ (pc # "exit" /\ pc' = "exit") =>
               /\ execute_signal_entry
               /\ StatusOf(committed, locals.position_id) = "ABSENT"
               /\ StatusOf(committed', locals.position_id) = "OPEN" ]_vars
    /\ [][ pc # "exit" =>
               /\ SellOrders(view') = SellOrders(view)
               /\ \A p \in Ids(view'.positions) :
                      StatusOf(view', p) = "CLOSED" => StatusOf(view, p) = "CLOSED" ]_vars
    /\ [][ (pc \in {"broker", "entry"} /\ ret' # <<"running">>) => pc' = "idle" ]_vars

\* Tx #3 is about to run for the second position: its OPEN status is committed
\* and no SELL order exists for it
C18_Witness ==
    /\ pc = "exit"
    /\ locals.position_id = 2
    /\ StatusOf(committed, 2) = "OPEN"
    /\ \A i \in SellOrders(view) : view.orders[i].position_id # 2
    /\ StatusOf(committed, 1) = "CLOSED"

\* C19: the kill switch starts off; on() and off() set it; an execution whose
\* gate is evaluated while it is on returns False with BLOCKED:KILL_SWITCH_ON,
\* writes no position and no order and calls no broker; one evaluated while it
\* is off is never blocked by the switch, and goes on to the broker unless
\* today's trading_enabled blocks it.
C19_KillSwitchVisible ==
    /\ ~kill_switch
    /\ [][ KillSwitchOn => kill_switch' ]_vars
    /\ [][ KillSwitchOff => ~kill_switch' ]_vars
    /\ [][ \A s \in Ids(committed.signal_scores), q \in Qtys :
               execute_signal_gate(s, q) =>
                   IF kill_switch
                   THEN /\ ret' = <<"return", "False">>
                        /\ log' = <<<<"BLOCKED", "KILL_SWITCH_ON">>>>
                        /\ pc' = "idle"
                        /\ view'.positions = committed.positions
                        /\ view'.orders = committed.orders
                        /\ committed' = committed
                        /\ broker_log' = broker_log
                   ELSE /\ log' # <<<<"BLOCKED", "KILL_SWITCH_ON">>>>
                        /\ ~GateBlocks =>
                               /\ pc' = "broker"
                               /\ Len(view'.positions) = Len(committed.positions) + 1 ]_vars

\* the switch was turned on after one execution had gone through, and the
\* next execution was blocked by it
C19_Witness ==
    /\ kill_switch
    /\ pc = "idle"
    /\ ret = <<"return", "False">>
    /\ log = <<<<"BLOCKED", "KILL_SWITCH_ON">>>>
    /\ Len(committed.positions) = 1
    /\ committed.positions[1].status = "CLOSED"

\* C20: every terminal outcome is logged once.  A Phase 1 call that returns
\* None and an execution that returns False each emit exactly one line (the
\* skip or the BLOCKED reason); the step that commits the entry emits the one
\* ORDER_FILLED line and the step that commits the close adds the one
\* POSITION_CLOSED line; a call that returns a signal emits nothing, and an
\* exception or a crash adds no line to what the call had emitted.
C20_OneLinePerOutcome ==
    /\ [][ ingest_and_create_signal(sample_news) =>
               IF ret' = <<"return", "None">>
               THEN /\ Len(log') = 1
                    /\ log'[1] \in {<<"DUP_NEWS_SKIPPED">>, <<"NO_MAPPING">>,
                                    <<"EVENT_TICKER_NOT_FOUND">>}
               ELSE log' = <<>> ]_vars
    /\ [][ \A s \in Ids(committed.signal_scores), q \in Qtys :
               execute_signal_gate(s, q) =>
                   IF pc' = "idle"
                   THEN /\ ret' = <<"return", "False">>
                        /\ Len(log') = 1
                        /\ log'[1][1] = "BLOCKED"
                   ELSE log' = <<>> ]_vars
    /\ [][ \A r \in BrokerOutcomes(EntryRequest(locals)) :
               execute_signal_broker(r) =>
                   IF ret' = <<"return", "False">>
                   THEN /\ Len(log') = 1
                        /\ log'[1][1] = "BLOCKED"
                   ELSE log' = <<>> ]_vars
    /\ [][ execute_signal_entry =>
               IF committed' # committed
               THEN /\ Len(log') = 1
                    /\ log'[1][1] = "ORDER_FILLED"
                    /\ log'[1][5] = locals.position_id
               ELSE log' = <<>> ]_vars
    /\ [][ execute_signal_exit =>
               IF committed' # committed
               THEN /\ Len(log') = 2
                    /\ log'[1] = log[1]
                    /\ log'[2] = <<"POSITION_CLOSED", locals.position_id, "TIME_EXIT">>
               ELSE log' = log ]_vars
    /\ [][ (ExceptionStep \/ Crash) => (log' = log \/ (pc = "idle" /\ log' = <<>>)) ]_vars
    /\ [](pc = "broker" => log = <<>>)
    /\ [](pc = "entry" => log = <<>>)
    /\ [](pc = "exit" => Len(log) = 1 /\ log[1][1] = "ORDER_FILLED")

\* a whole execution: the ORDER_FILLED line, then the POSITION_CLOSED line
C20_Witness ==
    /\ pc = "idle"
    /\ ret = <<"return", "True">>
    /\ Len(log) = 2
    /\ log[1][1] = "ORDER_FILLED"
    /\ log[2] = <<"POSITION_CLOSED", 1, "TIME_EXIT">>

\* C21: send_telegram answers True or False for every delivery and never
\* raises, and what each pipeline step returns and commits is what the
\* pipeline's own logic gives, whatever became of the notification: a skip
\* still returns None, a block still returns False, a committed entry still
\* goes on to Tx #3 and a committed close still returns True.
C21_NotificationNeverMatters ==
    /\ [](\A delivery \in Deliveries :
              /\ send_telegram(delivery) \in {"True", "False"}
              /\ send_telegram(delivery) = "True" <=> delivery = "ok"
              /\ log_and_notify(delivery) = "None")
    /\ [][ ingest_and_create_signal(sample_news) =>
               /\ ret' = Phase1(view, sample_news).ret
               /\ committed' = Phase1(view, sample_news).tx.committed ]_vars
    /\ [][ \A s \in Ids(committed.signal_scores), q \in Qtys :
               (execute_signal_gate(s, q) /\ pc' = "idle") =>
                   /\ ret' = <<"return", "False">>
                   /\ committed' = committed ]_vars
    /\ [][ \A r \in BrokerOutcomes(EntryRequest(locals)) :
               (execute_signal_broker(r) /\ r # Throws /\ NotFilled(r)) =>
                   /\ ret' = <<"return", "False">>
                   /\ committed' = committed ]_vars
    /\ [][ execute_signal_entry =>
               /\ pc' = "exit"
               /\ ret' = <<"running">>
               /\ committed' = Phase2Entry(view, locals).db ]_vars
    /\ [][ execute_signal_exit =>
               /\ ret' = <<"return", "True">>
               /\ committed' = Phase3(view, locals).db ]_vars

\* a rejected entry order was reported and the call returned False
C21_Witness ==
    /\ pc = "idle"
    /\ ret = <<"return", "False">>
    /\ log = <<<<"BLOCKED", "SIM_REJECT">>>>
    /\ view = committed

----------------------------------------------------------------------------
(* Properties of the scorer, checked under SpecScores *)

\* the weight compute_scores is to use for key k
WeightFor(weights, k) ==
    IF weights # NoRow /\ k \in DOMAIN weights[1] THEN weights[1][k] ELSE DEFAULT_WEIGHTS[k]

\* C22: whatever the inputs and the weights, raw_score is the weighted sum of
\* the five components minus risk_penalty (all scaled by 100) and total_score
\* is raw_score clamped to [0, 100]: within the range, equal to raw_score when
\* that is in range, 0 below it and 100 above it.
C22_ScoresClamped ==
    ret[1] = "compute_scores" =>
        LET inp == ret[2]
            weights == ret[3]
            out == ret[4]
            sum == WeightFor(weights, "impact") * inp.impact
                   + WeightFor(weights, "source_reliability") * inp.source_reliability
                   + WeightFor(weights, "novelty") * inp.novelty
                   + WeightFor(weights, "market_reaction") * inp.market_reaction
                   + WeightFor(weights, "liquidity") * inp.liquidity
        IN /\ out.raw_score = sum - 100 * inp.risk_penalty
           /\ out.total_score >= 0
           /\ out.total_score <= ScoreHi
           /\ (out.raw_score >= 0 /\ out.raw_score <= ScoreHi) =>
                  out.total_score = out.raw_score
           /\ out.raw_score < 0 => out.total_score = 0
           /\ out.raw_score > ScoreHi => out.total_score = ScoreHi

\* a raw score below zero, from the default weights, was clamped to 0
C22_Witness ==
    /\ ret[1] = "compute_scores"
    /\ ret[3] = NoRow
    /\ ret[4].raw_score < 0
    /\ ret[4].total_score = 0

----------------------------------------------------------------------------
(* Score weights of Phase 1, checked under SpecWeights *)

\* the raw score of the fixed components of Phase 1 when each weight present
\* in stored is used and each absent one is the built-in default
PerWeightRawScore(stored) ==
    LET W(k) == IF k \in DOMAIN stored THEN stored[k] ELSE DEFAULT_WEIGHTS[k]
    IN W("impact") * 75 + W("source_reliability") * 70 + W("novelty") * 90
       + W("market_reaction") * 50 + W("liquidity") * 50 - 100 * 10

\* C23: whatever subset of the five weights the registry row holds, the
\* signal Phase 1 stores is scored with the registry value of each weight
\* that is present and the default of each weight that is absent.
C23_PerWeightFallback ==
    [][\A news \in IngestItems :
        (ingest_and_create_signal(news) /\ ret'[1] = "return" /\ ret'[2] = "bundle") =>
            committed'.signal_scores[ret'[3]].raw_score
                = PerWeightRawScore(get_parameter(committed, "score_weights")[1])]_vars

----------------------------------------------------------------------------
(* A refused event inside the pipeline, checked under SpecRetry *)

\* C24: when the ENTRY or FULL_EXIT event of a phase is refused because its
\* idempotency key is already stored, the phase neither raises nor rolls
\* back: Tx #2 still commits the FILLED order and the OPEN position and goes
\* on to Tx #3, Tx #3 still commits the SELL order and the CLOSED position and
\* returns True; no event row is added.
C24_RefusedEventIsApplied ==
    /\ [][(execute_signal_entry
           /\ HasKey(view, Key("entry", locals.position_id, locals.order_id))) =>
             /\ pc' = "exit"
             /\ ~intx'
             /\ committed'.positions[locals.position_id].status = "OPEN"
             /\ committed'.orders[locals.order_id].status = "FILLED"
             /\ committed'.position_events = view.position_events
             /\ log' = <<<<"ORDER_FILLED", locals.ticker, locals.result.avg_price,
                           locals.signal_id, locals.position_id, None>>>>]_vars
    /\ [][(execute_signal_exit
           /\ HasKey(view, Key("exit", locals.position_id, Len(view.orders) + 1))) =>
             /\ ret' = <<"return", "True">>
             /\ ~intx'
             /\ committed'.positions[locals.position_id].status = "CLOSED"
             /\ Len(committed'.orders) = Len(view.orders) + 1
             /\ committed'.orders[Len(view.orders) + 1].status = "FILLED"
             /\ committed'.orders[Len(view.orders) + 1].side = "SELL"
             /\ committed'.position_events = view.position_events]_vars

\* a run that returned True although both of its events had been recorded
\* beforehand: the position is CLOSED and the only events are the replayed ones
C24_Witness ==
    /\ ret = <<"return", "True">>
    /\ Len(committed.positions) = 1
    /\ committed.positions[1].status = "CLOSED"
    /\ Len(committed.position_events) = 2
    /\ \A i \in Ids(committed.position_events) :
           committed.position_events[i].reason_code = "REPLAYED"

----------------------------------------------------------------------------
(* Properties of the orders table, checked under SpecOrders *)

\* C25: committed orders rows are never deleted, and a committed row changes
\* only by becoming FILLED with a fill price: a row that is already FILLED is
\* the same in every later committed state.
C25_OrdersAppendOnly ==
    [][/\ Len(committed'.orders) >= Len(committed.orders)
       /\ \A i \in Ids(committed.orders) :
              committed'.orders[i] # committed.orders[i] =>
                  /\ committed.orders[i].status # "FILLED"
                  /\ \E price \in Prices :
                         committed'.orders[i] =
                             [committed.orders[i] EXCEPT !.status = "FILLED",
                                                         !.price = price,
                                                         !.filled = TRUE]]_vars

----------------------------------------------------------------------------
(* Properties of the Signal Integrity Check, checked under SpecBinding *)

\* C26: validate_signal_binding raises NEWS_MISMATCH whenever the binding's
\* news_id differs from input_news_id, whatever the confidence; with equal
\* ids it raises LOW_CONFIDENCE when map_confidence < min_conf and passes
\* when map_confidence >= min_conf, the threshold itself included.
C26_BindingCheckOrder ==
    ret[1] = "validate_signal_binding" =>
        LET input_news_id == ret[2]
            binding == ret[3]
            min_conf == ret[4]
            outcome == ret[5]
        IN /\ binding.news_id # input_news_id => outcome = "NEWS_MISMATCH"
           /\ (binding.news_id = input_news_id /\ binding.map_confidence < min_conf) =>
                  outcome = "LOW_CONFIDENCE"
           /\ (binding.news_id = input_news_id /\ binding.map_confidence >= min_conf) =>
                  outcome = "OK"
           /\ (binding.news_id = input_news_id /\ binding.map_confidence = min_conf) =>
                  outcome = "OK"

\* both checks would fail and NEWS_MISMATCH is the one raised
C26_Witness ==
    /\ ret[1] = "validate_signal_binding"
    /\ ret[3].news_id # ret[2]
    /\ ret[3].map_confidence < ret[4]
    /\ ret[5] = "NEWS_MISMATCH"

----------------------------------------------------------------------------
(* The per-day risk row across executions, checked under Spec *)

OneRowPerDate(d) ==
    \A i, j \in Ids(d.risk_state) :
        d.risk_state[i].trade_date = d.risk_state[j].trade_date => i = j

KeepsRiskRows(d, e) ==
    /\ Len(e.risk_state) >= Len(d.risk_state)
    /\ \A i \in Ids(d.risk_state) : e.risk_state[i] = d.risk_state[i]

\* C27: there is never more than one risk_state row per trade_date; the gate
\* of an execution creates today's row, with trading_enabled = 1, only when
\* there is none and otherwise leaves every row as it is, so an execution on
\* a disabled day is blocked and leaves the day disabled; nothing but risk
\* management's own update changes a committed row.
C27_EnsureRiskStateIdempotent ==
    /\ [](OneRowPerDate(committed) /\ OneRowPerDate(view))
    /\ [][\A s \in Ids(committed.signal_scores), q \in Qtys :
            (execute_signal_gate(s, q) /\ ~intx) =>
                /\ KeepsRiskRows(view, view')
                /\ pc' = "broker" =>
                       IF get_risk_state(view, today) = NoRow
                       THEN view'.risk_state =
                                Append(view.risk_state,
                                       [trade_date |-> today, trading_enabled |-> 1])
                       ELSE view'.risk_state = view.risk_state
                /\ (get_risk_state(view, today) # NoRow
                    /\ get_risk_state(view, today)[1].trading_enabled = 0) =>
                       /\ ret' = <<"return", "False">>
                       /\ view'.risk_state = view.risk_state
                       /\ committed'.risk_state = committed.risk_state]_vars
    /\ [][~(\E v \in {0, 1} : SetTradingEnabled(v)) =>
              KeepsRiskRows(committed, committed')]_vars

\* an execution was blocked on a disabled day, which is still disabled
C27_Witness ==
    /\ ret = <<"return", "False">>
    /\ log = <<<<"BLOCKED", "RISK_DISABLED">>>>
    /\ get_risk_state(committed, today) # NoRow
    /\ get_risk_state(committed, today)[1].trading_enabled = 0
    /\ Len(committed.risk_state) = MaxDay

----------------------------------------------------------------------------
(* Committed state of the pipeline, checked under Spec *)

\* C28: no committed position is PENDING_ENTRY and no committed order is
\* SENT; the connection's view holds such rows only while a transaction is
\* open.
C28_NoCommittedPending ==
    /\ \A p \in Ids(committed.positions) : committed.positions[p].status # "PENDING_ENTRY"
    /\ \A o \in Ids(committed.orders) : committed.orders[o].status # "SENT"
    /\ ~intx =>
           /\ \A p \in Ids(view.positions) : view.positions[p].status # "PENDING_ENTRY"
           /\ \A o \in Ids(view.orders) : view.orders[o].status # "SENT"

\* a second execution waits for the broker: its PENDING_ENTRY position and
\* SENT order are in the open transaction, beside a committed CLOSED position
C28_Witness ==
    /\ pc = "broker"
    /\ intx
    /\ Len(committed.positions) = 1
    /\ committed.positions[1].status = "CLOSED"
    /\ view.positions[locals.position_id].status = "PENDING_ENTRY"
    /\ view.orders[locals.order_id].status = "SENT"

FilledOrders(d, p, side) ==
    {o \in Ids(d.orders) : /\ d.orders[o].position_id = p
                           /\ d.orders[o].side = side
                           /\ d.orders[o].status = "FILLED"}

EventsOfType(d, p, event_type) ==
    {e \in Ids(d.position_events) : /\ d.position_events[e].position_id = p
                                    /\ d.position_events[e].event_type = event_type}

\* C29: in committed state every OPEN or CLOSED position has exactly one
\* FILLED BUY order and exactly one ENTRY event, keyed entry:{position}:{order},
\* its avg_entry_price is the price of that fill and its opened_value is
\* avg_entry_price x qty; a CLOSED position has also exactly one FILLED SELL
\* order and exactly one FULL_EXIT event, keyed exit:{position}:{exit order};
\* an OPEN position has no SELL order.
C29_CrossTableConsistency ==
    \A p \in Ids(committed.positions) :
        LET pos == committed.positions[p]
            buys == FilledOrders(committed, p, "BUY")
            sells == FilledOrders(committed, p, "SELL")
            entries == EventsOfType(committed, p, "ENTRY")
            exits == EventsOfType(committed, p, "FULL_EXIT")
        IN /\ pos.status \in {"OPEN", "CLOSED"} =>
                  /\ Cardinality(buys) = 1
                  /\ Cardinality(entries) = 1
                  /\ \A o \in buys, e \in entries :
                         /\ committed.position_events[e].idempotency_key = <<"entry", p, o>>
                         /\ pos.avg_entry_price = committed.orders[o].price
                         /\ pos.avg_entry_price = ExpectedPrice
                  /\ pos.opened_value = pos.avg_entry_price * pos.qty
           /\ pos.status = "CLOSED" =>
                  /\ Cardinality(sells) = 1
                  /\ Cardinality(exits) = 1
                  /\ \A o \in sells, e \in exits :
                         committed.position_events[e].idempotency_key = <<"exit", p, o>>
           /\ pos.status = "OPEN" =>
                  ~\E o \in Ids(committed.orders) :
                       /\ committed.orders[o].position_id = p
                       /\ committed.orders[o].side = "SELL"

\* a CLOSED position and an OPEN one, of different quantities, are committed
C29_Witness ==
    /\ Len(committed.positions) = 2
    /\ committed.positions[1].status = "CLOSED"
    /\ committed.positions[2].status = "OPEN"
    /\ committed.positions[1].qty # committed.positions[2].qty

----------------------------------------------------------------------------
(* Transactions of the pipeline, checked under SpecFair *)

\* C30: a transaction is open only inside Tx #2 of a running execute_signal
\* (at the broker call or between it and the commit); every step at which a
\* pipeline function returns or raises leaves no transaction open; and, the
\* broker call returning or throwing, an open transaction is always closed.
C30_EveryTransactionClosed ==
    /\ [](intx => pc \in {"broker", "entry"})
    /\ [][pc' = "idle" => (~intx' /\ view' = committed')]_vars
    /\ (intx ~> ~intx)

\* an execution raised after the broker had answered, and no transaction is open
C30_Witness ==
    /\ pc = "idle"
    /\ ret = <<"raise", "Exception">>
    /\ broker_log # <<>>
    /\ ~intx
    /\ view = committed

----------------------------------------------------------------------------
(* Immediate commits inside an open transaction, checked under SpecTx *)

\* C31: an operation called with autocommit=True makes only its own write
\* durable: the committed state it leaves is the one before it plus its own
\* row, so that writes deferred earlier in the open transaction can still be
\* rolled back.
C31_AutocommitOwnWriteOnly ==
    [][/\ \A day \in 1..MaxDay :
              DB_ensure_risk_state_today(day, TRUE) =>
                  committed' = ensure_risk_state_today(committed, day)
       /\ DB_create_position("005930", 1, 1, TRUE) =>
              /\ committed'.risk_state = committed.risk_state
              /\ Len(committed'.positions) = Len(committed.positions) + 1]_vars

----------------------------------------------------------------------------
(* Standalone operations that do not succeed, checked under SpecStandalone *)

\* the last call was an insert that returned None or a transition that raised
StandaloneFailed ==
    \/ /\ ret[1] \in {"insert_news_if_new", "insert_position_event"}
       /\ ret[2] = "return"
       /\ ret[3] = None
    \/ /\ ret[1] \in {"set_position_open", "set_position_closed"}
       /\ ret[2] = "raise"

\* C32: a standalone operation that is called with no transaction open and
\* does not succeed leaves no transaction open (so that the next begin()
\* succeeds) and leaves committed state as it was.
C32_FailedStandaloneLeavesNoTx ==
    [][(~intx /\ StandaloneFailed') => (~intx' /\ committed' = committed)]_vars

----------------------------------------------------------------------------
(* Properties of KISBroker.send_order, checked under SpecKis *)

\* C33: a response whose rt_cd reads "0" gives FILLED with filled_qty the
\* request's quantity rounded to an integer and at least 1, avg_price the
\* request's expected price (0 when none was given) and a reason code that
\* begins with ORDER_ACCEPTED; every other rt_cd gives REJECTED with
\* filled_qty 0 and avg_price 0.
C33_KisResponseMapping ==
    ret[1] = "send_order" =>
        LET req == ret[2]
            data == ret[3]
            out == ret[4]
        IN IF data.rt_cd.text = "0"
           THEN /\ out.status = "FILLED"
                /\ out.filled_qty >= 1
                /\ out.filled_qty > 1 =>
                       /\ 10 * out.filled_qty - req.qty <= 5
                       /\ req.qty - 10 * out.filled_qty <= 5
                /\ out.filled_qty = 1 => req.qty <= 15
                /\ out.avg_price =
                       (IF req.expected_price = NoRow THEN 0 ELSE req.expected_price[1])
                /\ out.reason_code[1] = "ORDER_ACCEPTED"
           ELSE /\ out.status = "REJECTED"
                /\ out.filled_qty = 0
                /\ out.avg_price = 0

\* an accepted order for 2.6 shares without an expected price: FILLED, 3, 0
C33_Witness ==
    /\ ret[1] = "send_order"
    /\ ret[2].qty = 26
    /\ ret[2].expected_price = NoRow
    /\ ret[4].status = "FILLED"
    /\ ret[4].filled_qty = 3
    /\ ret[4].avg_price = 0
    /\ ret[4].reason_code = <<"ORDER_ACCEPTED", "12345">>

----------------------------------------------------------------------------
(* Freshness of the pipeline's idempotency keys, checked under Spec *)

\* C34: the entry and block keys of a running execution, and the exit key of
\* its Tx #3, are not among the committed position_events, whatever runs were
\* committed or rolled back before; so the ENTRY insert and the FULL_EXIT
\* insert of the pipeline each return the id of a new row.
C34_PipelineKeysFresh ==
    /\ [](pc \in {"broker", "entry"} =>
             /\ ~HasKey(committed, Key("entry", locals.position_id, locals.order_id))
             /\ ~HasKey(committed, Key("block", locals.position_id, locals.order_id)))
    /\ [](pc = "exit" =>
             ~HasKey(committed, Key("exit", locals.position_id, Len(view.orders) + 1)))
    /\ [][(execute_signal_entry /\ pc' = "exit") =>
             /\ Len(committed'.position_events) = Len(committed.position_events) + 1
             /\ log'[1][6] = Len(committed'.position_events)]_vars
    /\ [][(execute_signal_exit /\ ret' = <<"return", "True">>) =>
             /\ Len(committed'.position_events) = Len(committed.position_events) + 1
             /\ committed'.position_events[Len(committed'.position_events)].event_type
                    = "FULL_EXIT"]_vars

\* after a run that was rolled back, the ENTRY event of a second position got
\* a new id beside the events of the first
C34_Witness ==
    /\ pc = "exit"
    /\ \E i \in Ids(broker_log) : broker_log[i].status = "REJECTED"
    /\ locals.position_id = 2
    /\ log = <<<<"ORDER_FILLED", locals.ticker, locals.result.avg_price,
                 locals.signal_id, 2, 3>>>>
    /\ Len(committed.position_events) = 3

====
